---- MODULE Spec2Model ----
(***************************************************************************)
(* A model of the chess position engine: the bit-set board (board.rs),     *)
(* make_move / unmake_move with the undo stack, the move generator         *)
(* (moves.rs), the attack detector and FEN import (utils.rs) and the       *)
(* game-result classifier (game_result.rs).                                *)
(*                                                                         *)
(* A BitBoard (a u64, one bit per square) is the set of its squares, a     *)
(* subset of 0..63: | is \cup, & is \cap, !x is AllSquares \ x, and        *)
(* x ^ bit toggles membership.  A Square is its index, a1 = 0 .. h8 = 63.  *)
(***************************************************************************)
EXTENDS Integers, Sequences, FiniteSets, TLC

\* ------------------------------------------------------------------ bounds
\* The deepest undo stack the driver builds (nested make_move calls).
MaxPly == 2
\* The deepest perft that is computed.
MaxPerftDepth == 3

\* The longest sequence of add_piece and delete_piece calls explored
MaxCalls == 2

\* The longest line of king moves played back and forth
MaxShufflePly == 8

\* --------------------------------------------------------------- constants
NumSquares == 64
AllSquares == 0 .. (NumSquares - 1)
\* Option<Square>::None
NoSquare == 64

White == "White"
Black == "Black"
Color == {White, Black}

Pawn == "Pawn"
Knight == "Knight"
Bishop == "Bishop"
Rook == "Rook"
Queen == "Queen"
King == "King"
Piece == {Pawn, Knight, Bishop, Rook, Queen, King}
\* Option<Piece>::None
NoPiece == "None"

Normal == "Normal"
DoublePawnPush == "DoublePawnPush"
EnPassant == "EnPassant"
Castling == "Castling"
Capture == "Capture"
Promotion == "Promotion"
PromotionCapture == "PromotionCapture"
Flags == {Normal, DoublePawnPush, EnPassant, Castling, Capture, Promotion, PromotionCapture}

\* castling_rights is a 4-bit mask, modelled as the set of the bits it holds.
W_KINGSIDE_RIGHTS == 1
W_QUEENSIDE_RIGHTS == 2
B_KINGSIDE_RIGHTS == 4
B_QUEENSIDE_RIGHTS == 8

A1 == 0
B1 == 1
C1 == 2
D1 == 3
E1 == 4
F1 == 5
G1 == 6
H1 == 7
A8 == 56
B8 == 57
C8 == 58
D8 == 59
E8 == 60
F8 == 61
G8 == 62
H8 == 63

opposite(c) == IF c = White THEN Black ELSE White

\* Color as usize, the first index of PAWN_ATTACKS
ColorIndex(c) == IF c = White THEN 0 ELSE 1

\* ------------------------------------------------------- squares, bit-sets
file(sq) == sq % 8
rank(sq) == sq \div 8

\* Square::new(file, rank): (rank << 3) | file
SquareNew(f, r) == r * 8 + f

\* Square::try_offset: None when the file or the rank leaves 0..7
try_offset(sq, df, dr) ==
    LET f == file(sq) + df
        r == rank(sq) + dr
    IN  IF f \in 0..7 /\ r \in 0..7 THEN SquareNew(f, r) ELSE NoSquare

\* Square::try_index
try_index(i) == IF i \in AllSquares THEN i ELSE NoSquare

\* u64::trailing_zeros: the lowest set square, 64 for the empty set
trailing_zeros(bits) ==
    IF bits = {} THEN 64 ELSE CHOOSE s \in bits : \A t \in bits : s <= t

\* x & (x - 1): the set without its lowest square
ClearLowest(bits) == bits \ {trailing_zeros(bits)}

\* Concatenation of a sequence of sequences, in order (Vec::push in loop order)
RECURSIVE Flatten(_)
Flatten(ss) == IF ss = <<>> THEN <<>> ELSE Head(ss) \o Flatten(Tail(ss))

SeqToSet(s) == {s[i] : i \in 1..Len(s)}

Abs(x) == IF x < 0 THEN 0 - x ELSE x

\* ------------------------------------------------------------------ tables
\* The offsets with the last one mistyped
KNIGHT_MOVES_MISTYPED == <<-17, -15, -10, -6, 6, 10, 15, 15>>

KNIGHT_MOVES == <<-17, -15, -10, -6, 6, 10, 15, 17>>

\* consts.rs KNIGHT_ATTACKS, each u64 written as the set of its bits; entry
\* sq + 1 is the table's entry for square sq.
KNIGHT_ATTACKS ==
    <<
    {10, 17},
    {11, 16, 18},
    {8, 12, 17, 19},
    {9, 13, 18, 20},
    {10, 14, 19, 21},
    {11, 15, 20, 22},
    {12, 21, 23},
    {13, 22},
    {2, 18, 25},
    {3, 19, 24, 26},
    {0, 4, 16, 20, 25, 27},
    {1, 5, 17, 21, 26, 28},
    {2, 6, 18, 22, 27, 29},
    {3, 7, 19, 23, 28, 30},
    {4, 20, 29, 31},
    {5, 21, 30},
    {1, 10, 26, 33},
    {0, 2, 11, 27, 32, 34},
    {1, 3, 8, 12, 24, 28, 33, 35},
    {2, 4, 9, 13, 25, 29, 34, 36},
    {3, 5, 10, 14, 26, 30, 35, 37},
    {4, 6, 11, 15, 27, 31, 36, 38},
    {5, 7, 12, 28, 37, 39},
    {6, 13, 29, 38},
    {9, 18, 34, 41},
    {8, 10, 19, 35, 40, 42},
    {9, 11, 16, 20, 32, 36, 41, 43},
    {10, 12, 17, 21, 33, 37, 42, 44},
    {11, 13, 18, 22, 34, 38, 43, 45},
    {12, 14, 19, 23, 35, 39, 44, 46},
    {13, 15, 20, 36, 45, 47},
    {14, 21, 37, 46},
    {17, 26, 42, 49},
    {16, 18, 27, 43, 48, 50},
    {17, 19, 24, 28, 40, 44, 49, 51},
    {18, 20, 25, 29, 41, 45, 50, 52},
    {19, 21, 26, 30, 42, 46, 51, 53},
    {20, 22, 27, 31, 43, 47, 52, 54},
    {21, 23, 28, 44, 53, 55},
    {22, 29, 45, 54},
    {25, 34, 50, 57},
    {24, 26, 35, 51, 56, 58},
    {25, 27, 32, 36, 48, 52, 57, 59},
    {26, 28, 33, 37, 49, 53, 58, 60},
    {27, 29, 34, 38, 50, 54, 59, 61},
    {28, 30, 35, 39, 51, 55, 60, 62},
    {29, 31, 36, 52, 61, 63},
    {30, 37, 53, 62},
    {33, 42, 58},
    {32, 34, 43, 59},
    {33, 35, 40, 44, 56, 60},
    {34, 36, 41, 45, 57, 61},
    {35, 37, 42, 46, 58, 62},
    {36, 38, 43, 47, 59, 63},
    {37, 39, 44, 60},
    {38, 45, 61},
    {41, 50},
    {40, 42, 51},
    {41, 43, 48, 52},
    {42, 44, 49, 53},
    {43, 45, 50, 54},
    {44, 46, 51, 55},
    {49, 51, 56},
    {46, 53}
    >>

\* const fn init_pawn_attack_masks: masks[color][square]
PawnAttackMask(ci, square) ==
    LET r == square \div 8
        f == square % 8
    IN  IF ci = 0
        THEN (IF r < 7 /\ f > 0 THEN {(r + 1) * 8 + (f - 1)} ELSE {})
             \cup (IF r < 7 /\ f < 7 THEN {(r + 1) * 8 + (f + 1)} ELSE {})
        ELSE (IF r > 0 /\ f > 0 THEN {(r - 1) * 8 + (f - 1)} ELSE {})
             \cup (IF r > 0 /\ f < 7 THEN {(r - 1) * 8 + (f + 1)} ELSE {})

PAWN_ATTACKS == [ci \in {0, 1} |-> [sq \in AllSquares |-> PawnAttackMask(ci, sq)]]

KingDirections ==
    << <<-1, -1>>, <<0, -1>>, <<1, -1>>, <<-1, 0>>, <<1, 0>>, <<-1, 1>>, <<0, 1>>, <<1, 1>> >>

\* const fn generate_king_attacks, one square
KingAttackMask(sq) ==
    LET r == sq \div 8
        f == sq % 8
    IN  { (r + KingDirections[i][2]) * 8 + (f + KingDirections[i][1]) :
            i \in { j \in 1..8 : /\ f + KingDirections[j][1] >= 0
                                 /\ f + KingDirections[j][1] < 8
                                 /\ r + KingDirections[j][2] >= 0
                                 /\ r + KingDirections[j][2] < 8 } }

KING_ATTACKS == [sq \in AllSquares |-> KingAttackMask(sq)]

ROOK_DELTAS == << <<1, 0>>, <<0, -1>>, <<-1, 0>>, <<0, 1>> >>
BISHOP_DELTAS == << <<1, 1>>, <<1, -1>>, <<-1, -1>>, <<-1, 1>> >>

Deltas(piece) == IF piece = Rook THEN ROOK_DELTAS ELSE BISHOP_DELTAS

\* One ray of Piece::sliding_moves: step until the current square is a blocker
\* or the board ends; every square stepped onto is a move.
RECURSIVE SlideRay(_, _, _, _)
SlideRay(ray, df, dr, blockers) ==
    IF ray \in blockers THEN {}
    ELSE LET shifted == try_offset(ray, df, dr)
         IN  IF shifted = NoSquare THEN {}
             ELSE {shifted} \cup SlideRay(shifted, df, dr, blockers)

\* Piece::sliding_moves (Rook or Bishop; any other piece is unreachable!())
sliding_moves(piece, square, blockers) ==
    UNION { SlideRay(square, Deltas(piece)[i][1], Deltas(piece)[i][2], blockers) : i \in 1..4 }

\* One ray of relevant_blockers: every square of the ray but its last
RECURSIVE MaskRay(_, _, _)
MaskRay(ray, df, dr) ==
    LET shifted == try_offset(ray, df, dr)
    IN  IF shifted = NoSquare THEN {} ELSE {ray} \cup MaskRay(shifted, df, dr)

\* magic_gen.rs relevant_blockers
relevant_blockers(piece, square) ==
    (UNION { MaskRay(square, Deltas(piece)[i][1], Deltas(piece)[i][2]) : i \in 1..4 }) \ {square}

\* precomputed.rs holds the tables the magic search of magic_gen.rs printed:
\* the mask of a square's entry is relevant_blockers, and the table entry that
\* magic_index selects for a masked occupancy is the one try_make_table stored
\* for it, the ray-cast sliding_moves.
ROOK_MASKS == [sq \in AllSquares |-> relevant_blockers(Rook, sq)]
BISHOP_MASKS == [sq \in AllSquares |-> relevant_blockers(Bishop, sq)]

ROOK_MOVES(square, masked) == sliding_moves(Rook, square, masked)
BISHOP_MOVES(square, masked) == sliding_moves(Bishop, square, masked)

\* A rook lookup that answers as if the board were empty
get_rook_moves_unblocked(square, blockers) == ROOK_MOVES(square, {})

\* sliding_pieces::get_rook_moves: mask the occupancy, look the entry up
get_rook_moves(square, blockers) ==
    ROOK_MOVES(square, blockers \cap ROOK_MASKS[square])

\* sliding_pieces::get_bishop_moves
get_bishop_moves(square, blockers) ==
    BISHOP_MOVES(square, blockers \cap BISHOP_MASKS[square])

\* sliding_pieces::get_queen_moves
get_queen_moves(square, blockers) ==
    get_rook_moves(square, blockers) \cup get_bishop_moves(square, blockers)

\* ------------------------------------------------------------------- board
PieceOrder == <<Pawn, Knight, Bishop, Rook, Queen, King>>

\* The Board field holding the bit-set of color c's pieces p
BitSetOf(c, p) ==
    IF c = White
    THEN CASE p = Pawn -> "white_pawns" [] p = Knight -> "white_knights"
           [] p = Bishop -> "white_bishops" [] p = Rook -> "white_rooks"
           [] p = Queen -> "white_queens" [] p = King -> "white_king"
    ELSE CASE p = Pawn -> "black_pawns" [] p = Knight -> "black_knights"
           [] p = Bishop -> "black_bishops" [] p = Rook -> "black_rooks"
           [] p = Queen -> "black_queens" [] p = King -> "black_king"

OccupiedOf(c) == IF c = White THEN "white_occupied" ELSE "black_occupied"

\* Option<(Piece, Color)>::None and Option<(Square, Piece, Color)>::None
NoOccupant == [piece |-> NoPiece, color |-> "None"]
NoCapture == [sq |-> NoSquare, piece |-> NoPiece, color |-> "None"]

\* Board::default()
DefaultBoard ==
    LET wp == 8..15
        wn == {1, 6}
        wb == {2, 5}
        wr == {0, 7}
        wq == {3}
        wk == {4}
        bp == 48..55
        bn == {57, 62}
        bbi == {58, 61}
        br == {56, 63}
        bq == {59}
        bk == {60}
        wo == wp \cup wn \cup wb \cup wr \cup wq \cup wk
        bo == bp \cup bn \cup bbi \cup br \cup bq \cup bk
    IN  [ white_pawns |-> wp, white_knights |-> wn, white_bishops |-> wb,
          white_rooks |-> wr, white_queens |-> wq, white_king |-> wk,
          black_pawns |-> bp, black_knights |-> bn, black_bishops |-> bbi,
          black_rooks |-> br, black_queens |-> bq, black_king |-> bk,
          white_occupied |-> wo, black_occupied |-> bo,
          occupied |-> wo \cup bo, empty |-> AllSquares \ (wo \cup bo),
          turn |-> White,
          castling_rights |-> {W_KINGSIDE_RIGHTS, W_QUEENSIDE_RIGHTS,
                               B_KINGSIDE_RIGHTS, B_QUEENSIDE_RIGHTS},
          en_passant_square |-> NoSquare,
          halfmove_clock |-> 0,
          fullmove_number |-> 1,
          zobrist_hash |-> 0,
          history |-> <<>> ]

\* The if / else-if chain over one color's six bit-sets: the first, in the
\* order pawns .. king, that holds sq
RECURSIVE FirstHolding(_, _, _, _)
FirstHolding(b, c, sq, i) ==
    IF i > 6 THEN NoPiece
    ELSE IF sq \in b[BitSetOf(c, PieceOrder[i])] THEN PieceOrder[i]
    ELSE FirstHolding(b, c, sq, i + 1)

\* Board::piece_on_square
piece_on_square(b, square) ==
    IF square \in b.white_occupied
    THEN LET p == FirstHolding(b, White, square, 1)
         IN  IF p = NoPiece THEN NoOccupant ELSE [piece |-> p, color |-> White]
    ELSE IF square \in b.black_occupied
    THEN LET p == FirstHolding(b, Black, square, 1)
         IN  IF p = NoPiece THEN NoOccupant ELSE [piece |-> p, color |-> Black]
    ELSE NoOccupant

\* Board::add_piece
add_piece(b, square, piece, color) ==
    [b EXCEPT ![OccupiedOf(color)] = @ \cup {square},
              ![BitSetOf(color, piece)] = @ \cup {square},
              !.occupied = @ \cup {square},
              !.empty = @ \ {square}]

\* x ^= bit
Toggle(bits, sq) == IF sq \in bits THEN bits \ {sq} ELSE bits \cup {sq}

\* A delete_piece that leaves the empty set as it was
delete_piece_keeping_empty(b, square) ==
    LET pc == piece_on_square(b, square)
    IN  IF pc.piece = NoPiece THEN b
        ELSE [b EXCEPT ![OccupiedOf(pc.color)] = Toggle(@, square),
                       ![BitSetOf(pc.color, pc.piece)] = Toggle(@, square),
                       !.occupied = Toggle(@, square)]

\* Board::delete_piece
delete_piece(b, square) ==
    LET pc == piece_on_square(b, square)
    IN  IF pc.piece = NoPiece THEN b
        ELSE [b EXCEPT ![OccupiedOf(pc.color)] = Toggle(@, square),
                       ![BitSetOf(pc.color, pc.piece)] = Toggle(@, square),
                       !.occupied = Toggle(@, square),
                       !.empty = @ \cup {square}]

\* A make_move / unmake_move that left the four derived sets as they were
KeepOccupancy(b) == b

\* The recomputation of the four derived sets from the twelve bit-sets
RecomputeOccupancy(b) ==
    LET wo == b.white_pawns \cup b.white_knights \cup b.white_bishops
              \cup b.white_rooks \cup b.white_queens \cup b.white_king
        bo == b.black_pawns \cup b.black_knights \cup b.black_bishops
              \cup b.black_rooks \cup b.black_queens \cup b.black_king
    IN  [b EXCEPT !.white_occupied = wo, !.black_occupied = bo,
                  !.occupied = wo \cup bo, !.empty = AllSquares \ (wo \cup bo)]

\* --------------------------------------------------------------- make_move
\* The Undo snapshot make_move pushes
UndoOf(b, mv) ==
    [ captured |-> IF mv.captured_piece = NoPiece THEN NoCapture
                   ELSE [sq |-> mv.to, piece |-> mv.captured_piece,
                         color |-> opposite(b.turn)],
      castling_rights |-> b.castling_rights,
      ep_square |-> b.en_passant_square,
      halfmove_clock |-> b.halfmove_clock,
      fullmove_number |-> b.fullmove_number ]

\* Clear `from` in the first of the mover's bit-sets that holds it
LiftMover(b, mv) ==
    LET p == FirstHolding(b, b.turn, mv.from, 1)
    IN  IF p = NoPiece THEN b
        ELSE [b EXCEPT ![BitSetOf(b.turn, p)] = @ \ {mv.from}]

\* If the opponent's occupancy holds `to`, clear it in the first opponent
\* bit-set that holds it
RemoveCaptured(b, mv) ==
    LET opp == opposite(b.turn)
        p == FirstHolding(b, opp, mv.to, 1)
    IN  IF mv.to \in b[OccupiedOf(opp)] /\ p # NoPiece
        THEN [b EXCEPT ![BitSetOf(opp, p)] = @ \ {mv.to}]
        ELSE b

\* Set `to` in the promotion piece's bit-set, or in the moved piece's own
\* (a promotion to Pawn or King is unreachable!(); no generator builds one)
PlaceMover(b, mv) ==
    IF mv.promotion # NoPiece
    THEN [b EXCEPT ![BitSetOf(b.turn, mv.promotion)] = @ \cup {mv.to}]
    ELSE [b EXCEPT ![BitSetOf(b.turn, mv.piece)] = @ \cup {mv.to}]

\* A make_move that set the target after a double push and never cleared it
UpdateEnPassantNoClear(b, mv) ==
    IF mv.piece = Pawn /\ Abs(mv.to - mv.from) = 16
    THEN [b EXCEPT !.en_passant_square = (mv.from + mv.to) \div 2]
    ELSE b

\* A make_move that records the pawn's destination as the target
UpdateEnPassantAtDestination(b, mv) ==
    IF mv.piece = Pawn /\ Abs(mv.to - mv.from) = 16
    THEN [b EXCEPT !.en_passant_square = mv.to]
    ELSE [b EXCEPT !.en_passant_square = NoSquare]

\* en_passant_square after the move
UpdateEnPassant(b, mv) ==
    IF mv.piece = Pawn /\ Abs(mv.to - mv.from) = 16
    THEN [b EXCEPT !.en_passant_square = (mv.from + mv.to) \div 2]
    ELSE [b EXCEPT !.en_passant_square = NoSquare]

\* halfmove_clock after the move; b.occupied is the occupancy recomputed
\* after the piece was placed on `to` (u8 arithmetic)
UpdateHalfmove(b, mv) ==
    IF mv.piece = Pawn \/ (b.occupied \cap {mv.to}) # {}
    THEN [b EXCEPT !.halfmove_clock = 0]
    ELSE [b EXCEPT !.halfmove_clock = (@ + 1) % 256]

\* A make_move that counted every half-move
UpdateFullmoveEveryMove(b) == [b EXCEPT !.fullmove_number = (@ + 1) % 65536]

\* fullmove_number after the move; b.turn is still the mover (u16 arithmetic)
UpdateFullmove(b) ==
    IF b.turn = Black
    THEN [b EXCEPT !.fullmove_number = (@ + 1) % 65536]
    ELSE b

\* castling_rights ^= rights in place of &= !rights: revoking a right that
\* is gone hands it back
ToggleRights(b, rights) ==
    [b EXCEPT !.castling_rights = (@ \ rights) \cup (rights \ @)]

RemoveRights(b, rights) == [b EXCEPT !.castling_rights = @ \ rights]

\* A make_move that left the rook in its corner
CastleWithoutRook(b, mv) == b

\* The Castling flag: relocate the rook and revoke both rights of the color
CastleRook(b, mv) ==
    IF mv.flags # Castling THEN b
    ELSE IF mv.from = E1
    THEN RemoveRights(
            IF mv.to = G1
            THEN add_piece(delete_piece(b, H1), F1, Rook, b.turn)
            ELSE add_piece(delete_piece(b, A1), D1, Rook, b.turn),
            {W_KINGSIDE_RIGHTS, W_QUEENSIDE_RIGHTS})
    ELSE IF mv.from = E8
    THEN RemoveRights(
            IF mv.to = G8
            THEN add_piece(delete_piece(b, H8), F8, Rook, b.turn)
            ELSE add_piece(delete_piece(b, A8), D8, Rook, b.turn),
            {B_KINGSIDE_RIGHTS, B_QUEENSIDE_RIGHTS})
    ELSE b

\* A king move from e1 / e8 revokes both rights of that home square's color
KingMoveRights(b, mv) ==
    IF mv.piece # King THEN b
    ELSE IF mv.from = E1 THEN RemoveRights(b, {W_KINGSIDE_RIGHTS, W_QUEENSIDE_RIGHTS})
    ELSE IF mv.from = E8 THEN RemoveRights(b, {B_KINGSIDE_RIGHTS, B_QUEENSIDE_RIGHTS})
    ELSE b

\* A rook move from a corner revokes that corner's right
RookMoveRights(b, mv) ==
    IF mv.piece # Rook THEN b
    ELSE LET b1 == IF mv.from = A1 THEN RemoveRights(b, {W_QUEENSIDE_RIGHTS})
                   ELSE IF mv.from = H1 THEN RemoveRights(b, {W_KINGSIDE_RIGHTS})
                   ELSE b
         IN  IF mv.from = A8 THEN RemoveRights(b1, {B_QUEENSIDE_RIGHTS})
             ELSE IF mv.from = H8 THEN RemoveRights(b1, {B_KINGSIDE_RIGHTS})
             ELSE b1

\* The EnPassant flag: delete whatever stands one rank behind `to`
\* (an index outside the board is unreachable!(): no pawn attacks from there)
EnPassantCapture(b, mv) ==
    IF mv.flags # EnPassant THEN b
    ELSE LET captured_pawn == try_index(mv.to + (IF b.turn = White THEN -8 ELSE 8))
         IN  IF captured_pawn # NoSquare THEN delete_piece(b, captured_pawn) ELSE b

FlipTurn(b) == [b EXCEPT !.turn = opposite(@)]

\* Board::make_move
make_move(b, mv) ==
    LET b0 == [b EXCEPT !.history = Append(@, UndoOf(b, mv))]
        b1 == PlaceMover(RemoveCaptured(LiftMover(b0, mv), mv), mv)
        b2 == RecomputeOccupancy(b1)
        b3 == UpdateFullmove(UpdateHalfmove(UpdateEnPassant(b2, mv), mv))
        b4 == RookMoveRights(KingMoveRights(CastleRook(b3, mv), mv), mv)
        b5 == EnPassantCapture(b4, mv)
    IN  FlipTurn(b5)

\* ------------------------------------------------------------- unmake_move
\* An unmake_move that popped the snapshot and restored nothing from it
KeepScalars(b, undo) == b

\* The scalars the popped Undo snapshot restores
RestoreScalars(b, undo) ==
    [b EXCEPT !.castling_rights = undo.castling_rights,
              !.en_passant_square = undo.ep_square,
              !.halfmove_clock = undo.halfmove_clock,
              !.fullmove_number = undo.fullmove_number]

\* Reverse the placement: the mover is the color that is not to move
UnplaceMover(b, mv) ==
    LET c == opposite(b.turn)
    IN  IF mv.promotion # NoPiece
        THEN [b EXCEPT ![BitSetOf(c, mv.promotion)] = @ \ {mv.to},
                       ![BitSetOf(c, Pawn)] = @ \cup {mv.from}]
        ELSE [b EXCEPT ![BitSetOf(c, mv.piece)] = (@ \ {mv.to}) \cup {mv.from}]

\* Put the snapshot's captured piece back on the snapshot's square
RestoreCaptured(b, undo) ==
    IF undo.captured.piece = NoPiece THEN b
    ELSE [b EXCEPT ![BitSetOf(undo.captured.color, undo.captured.piece)] =
                        @ \cup {undo.captured.sq}]

\* Reverse the rook relocation of a Castling move
UncastleRook(b, mv) ==
    IF mv.flags # Castling \/ mv.piece # King THEN b
    ELSE IF mv.to = G1 THEN [b EXCEPT !.white_rooks = (@ \ {F1}) \cup {H1}]
    ELSE IF mv.to = C1 THEN [b EXCEPT !.white_rooks = (@ \ {D1}) \cup {A1}]
    ELSE IF mv.to = G8 THEN [b EXCEPT !.black_rooks = (@ \ {F8}) \cup {H8}]
    ELSE IF mv.to = C8 THEN [b EXCEPT !.black_rooks = (@ \ {D8}) \cup {A8}]
    ELSE b

\* unmake_move aborts: expect() on an empty undo stack, unreachable!() on a
\* snapshot whose captured piece is a King
UnmakePanics(b) ==
    IF b.history = <<>> THEN TRUE
    ELSE b.history[Len(b.history)].captured.piece = King

\* Board::unmake_move, when it does not abort
unmake_move(b, mv) ==
    LET undo == b.history[Len(b.history)]
        b0 == [b EXCEPT !.history = SubSeq(@, 1, Len(@) - 1)]
        b1 == RestoreScalars(b0, undo)
        b2 == UnplaceMover(b1, mv)
        b3 == RestoreCaptured(b2, undo)
        b4 == UncastleRook(b3, mv)
        b5 == RecomputeOccupancy(b4)
    IN  FlipTurn(b5)

\* An unmake_move that moved the piece back before it took the snapshot
unmake_move_unplacing_first(b, mv) == UnplaceMover(b, mv)

\* The board unmake_move leaves behind when it aborts: untouched when expect()
\* fails on the empty undo stack; with the snapshot popped, the scalars
\* restored and the mover put back when unreachable!() is hit on a captured King
unmake_move_aborted(b, mv) ==
    IF b.history = <<>> THEN b
    ELSE LET undo == b.history[Len(b.history)]
             b0 == [b EXCEPT !.history = SubSeq(@, 1, Len(@) - 1)]
         IN  UnplaceMover(RestoreScalars(b0, undo), mv)

\* ------------------------------------------------------- attack detection
\* Board::is_square_attacked
is_square_attacked(b, sq, attacking_color) ==
    LET pawns == b[BitSetOf(attacking_color, Pawn)]
        knights == b[BitSetOf(attacking_color, Knight)]
        bishops == b[BitSetOf(attacking_color, Bishop)]
        rooks == b[BitSetOf(attacking_color, Rook)]
        queens == b[BitSetOf(attacking_color, Queen)]
        king == b[BitSetOf(attacking_color, King)]
        blockers == b.occupied
    IN  \/ PAWN_ATTACKS[ColorIndex(opposite(attacking_color))][sq] \cap pawns # {}
        \/ KNIGHT_ATTACKS[sq + 1] \cap knights # {}
        \/ KING_ATTACKS[sq] \cap king # {}
        \/ get_bishop_moves(sq, blockers) \cap (bishops \cup queens) # {}
        \/ get_rook_moves(sq, blockers) \cap (rooks \cup queens) # {}

\* An is_king_in_check that examines the king of the color it is given
is_own_king_in_check(b, color) ==
    LET own_king == IF color = White THEN b.white_king ELSE b.black_king
    IN  IF own_king = {} THEN FALSE
        ELSE is_square_attacked(b, trailing_zeros(own_king), opposite(color))

\* Board::is_king_in_check: the parameter is the attacking color, the king
\* examined is the other color's
is_king_in_check(b, attacking_color) ==
    LET attacked_king == IF attacking_color = White THEN b.black_king ELSE b.white_king
    IN  IF attacked_king = {} THEN FALSE
        ELSE is_square_attacked(b, trailing_zeros(attacked_king), attacking_color)

\* ---------------------------------------------------------- move generator
\* struct Move
Mv(from, to, piece, captured_piece, promotion, flags) ==
    [from |-> from, to |-> to, piece |-> piece, captured_piece |-> captured_piece,
     promotion |-> promotion, flags |-> flags]

\* The squares of a bit-set in the order the lowest-bit-first loops visit them
RECURSIVE Ascending(_)
Ascending(bits) ==
    IF bits = {} THEN <<>>
    ELSE <<trailing_zeros(bits)>> \o Ascending(ClearLowest(bits))

PromotionPieces == <<Queen, Rook, Bishop, Knight>>

\* The body of generate_pawn_moves' loop for the pawn on from_sq_idx
PawnMovesFrom(b, from_sq_idx) ==
    LET rnk == rank(from_sq_idx)
        fil == file(from_sq_idx)
        pawn_color == b.turn
        forward_dir == IF pawn_color = White THEN 8 ELSE -8
        start_rank == IF pawn_color = White THEN 1 ELSE 6
        promotion_rank == IF pawn_color = White THEN 7 ELSE 0
        capture_dirs == IF pawn_color = White THEN <<7, 9>> ELSE <<-7, -9>>
        their_occupied == b[OccupiedOf(opposite(pawn_color))]
        target_sq_idx == from_sq_idx + forward_dir
        double_target_sq_idx == target_sq_idx + forward_dir
        single ==
            IF rnk = promotion_rank
            THEN [i \in 1..4 |-> Mv(from_sq_idx, target_sq_idx, Pawn, NoPiece,
                                    PromotionPieces[i], Promotion)]
            ELSE << Mv(from_sq_idx, target_sq_idx, Pawn, NoPiece, NoPiece, Normal) >>
        double ==
            IF /\ rnk = start_rank
               /\ double_target_sq_idx \in AllSquares
               /\ double_target_sq_idx \in b.empty
            THEN << Mv(from_sq_idx, double_target_sq_idx, Pawn, NoPiece, NoPiece,
                       DoublePawnPush) >>
            ELSE <<>>
        pushes ==
            IF target_sq_idx \in AllSquares /\ target_sq_idx \in b.empty
            THEN single \o double
            ELSE <<>>
        CapturesTo(t) ==
            IF /\ t \in AllSquares
               /\ Abs((t \div 8) - rnk) = 1
               /\ Abs((t % 8) - fil) = 1
               /\ t \in their_occupied
            THEN LET captured_piece_type == piece_on_square(b, t).piece
                 IN  IF rnk = promotion_rank
                     THEN [i \in 1..4 |-> Mv(from_sq_idx, t, Pawn, captured_piece_type,
                                             PromotionPieces[i], PromotionCapture)]
                     ELSE << Mv(from_sq_idx, t, Pawn, captured_piece_type, NoPiece,
                                Capture) >>
            ELSE <<>>
    IN  pushes \o CapturesTo(from_sq_idx + capture_dirs[1])
               \o CapturesTo(from_sq_idx + capture_dirs[2])

\* A generate_pawn_moves without its en-passant block
NoEnPassantMoves(b) == <<>>

\* The en-passant block that ends generate_pawn_moves
EnPassantMoves(b) ==
    IF b.en_passant_square = NoSquare THEN <<>>
    ELSE LET ep_sq == b.en_passant_square
             attackers == PAWN_ATTACKS[ColorIndex(opposite(b.turn))][ep_sq]
                          \cap b[BitSetOf(b.turn, Pawn)]
             froms == Ascending(attackers)
         IN  [i \in 1..Len(froms) |-> Mv(froms[i], ep_sq, Pawn, Pawn, NoPiece, EnPassant)]

\* Board::generate_pawn_moves
generate_pawn_moves(b) ==
    LET our_pawns == Ascending(b[BitSetOf(b.turn, Pawn)])
    IN  Flatten([i \in 1..Len(our_pawns) |-> PawnMovesFrom(b, our_pawns[i])])
        \o EnPassantMoves(b)

\* The body of generate_knight_moves' loop for the knight on from_sq_idx
KnightMovesFrom(b, from_sq_idx) ==
    LET our_occupied == b[OccupiedOf(b.turn)]
        To(offset) ==
            LET t == from_sq_idx + offset
                rank_diff == Abs((from_sq_idx \div 8) - (t \div 8))
                file_diff == Abs((from_sq_idx % 8) - (t % 8))
            IN  IF /\ t >= 0 /\ t < 64
                   /\ ((rank_diff = 1 /\ file_diff = 2) \/ (rank_diff = 2 /\ file_diff = 1))
                   /\ t \notin our_occupied
                THEN LET captured_piece == piece_on_square(b, t).piece
                     IN  << Mv(from_sq_idx, t, Knight, captured_piece, NoPiece,
                               IF captured_piece # NoPiece THEN Capture ELSE Normal) >>
                ELSE <<>>
    IN  Flatten([i \in 1..8 |-> To(KNIGHT_MOVES[i])])

\* Board::generate_knight_moves
generate_knight_moves(b) ==
    LET knights == Ascending(b[BitSetOf(b.turn, Knight)])
    IN  Flatten([i \in 1..Len(knights) |-> KnightMovesFrom(b, knights[i])])

\* The ordinary king steps from from_sq: the king table minus own occupancy,
\* minus the destinations the opponent attacks
KingSteps(b, from_sq) ==
    LET attacks == Ascending(KING_ATTACKS[from_sq] \ b[OccupiedOf(b.turn)])
        Step(to_sq) ==
            IF is_square_attacked(b, to_sq, opposite(b.turn)) THEN <<>>
            ELSE LET cap == piece_on_square(b, to_sq).piece
                 IN  << Mv(from_sq, to_sq, King, cap, NoPiece,
                           IF cap # NoPiece THEN Capture ELSE Normal) >>
    IN  Flatten([i \in 1..Len(attacks) |-> Step(attacks[i])])

\* One castling candidate: the right is held, the squares between are empty,
\* the king's three squares are not attacked
CastleCandidate(b, right, between, path, from_sq, to_sq) ==
    IF /\ right \in b.castling_rights
       /\ between \subseteq b.empty
       /\ \A s \in path : ~is_square_attacked(b, s, opposite(b.turn))
    THEN << Mv(from_sq, to_sq, King, NoPiece, NoPiece, Castling) >>
    ELSE <<>>

\* The castling block of generate_king_moves for the king on from_sq
CastlingMoves(b, from_sq) ==
    IF b.turn = White /\ from_sq = E1
    THEN CastleCandidate(b, W_KINGSIDE_RIGHTS, {G1, F1}, {E1, F1, G1}, E1, G1)
         \o CastleCandidate(b, W_QUEENSIDE_RIGHTS, {C1, D1, B1}, {E1, D1, C1}, E1, C1)
    ELSE IF b.turn = Black /\ from_sq = E8
    THEN CastleCandidate(b, B_KINGSIDE_RIGHTS, {G8, F8}, {E8, F8, G8}, E8, G8)
         \o CastleCandidate(b, B_QUEENSIDE_RIGHTS, {C8, D8, B8}, {E8, D8, C8}, E8, C8)
    ELSE <<>>

\* Board::generate_king_moves
generate_king_moves(b) ==
    LET kings == Ascending(b[BitSetOf(b.turn, King)])
    IN  Flatten([i \in 1..Len(kings) |-> KingSteps(b, kings[i]) \o CastlingMoves(b, kings[i])])

\* The shared body of generate_rook_moves, generate_bishop_moves and
\* generate_queen_moves for the slider on from_sq with attack set `attacks`
SliderMovesFrom(b, piece, from_sq, attacks) ==
    LET targets == Ascending(attacks)
        To(target_sq) ==
            LET piece_data == piece_on_square(b, target_sq)
            IN  IF piece_data.piece # NoPiece /\ piece_data.color = b.turn THEN <<>>
                ELSE << Mv(from_sq, target_sq, piece, piece_data.piece, NoPiece,
                           IF piece_data.piece # NoPiece THEN Capture ELSE Normal) >>
    IN  Flatten([i \in 1..Len(targets) |-> To(targets[i])])

\* Board::generate_rook_moves
generate_rook_moves(b) ==
    LET rooks == Ascending(b[BitSetOf(b.turn, Rook)])
    IN  Flatten([i \in 1..Len(rooks) |->
            SliderMovesFrom(b, Rook, rooks[i], get_rook_moves(rooks[i], b.occupied))])

\* Board::generate_bishop_moves
generate_bishop_moves(b) ==
    LET bishops == Ascending(b[BitSetOf(b.turn, Bishop)])
    IN  Flatten([i \in 1..Len(bishops) |->
            SliderMovesFrom(b, Bishop, bishops[i], get_bishop_moves(bishops[i], b.occupied))])

\* Board::generate_queen_moves
generate_queen_moves(b) ==
    LET queens == Ascending(b[BitSetOf(b.turn, Queen)])
    IN  Flatten([i \in 1..Len(queens) |->
            SliderMovesFrom(b, Queen, queens[i], get_queen_moves(queens[i], b.occupied))])

\* The legality filter both entry points apply to a candidate: make the move on
\* a clone and keep it when the mover's king is not attacked there
KeepsKingSafe(b, mv) == ~is_king_in_check(make_move(b, mv), opposite(b.turn))

\* Board::generate_legal_moves
generate_legal_moves(b) ==
    LET moves == generate_pawn_moves(b) \o generate_knight_moves(b)
                 \o generate_rook_moves(b) \o generate_queen_moves(b)
                 \o generate_bishop_moves(b) \o generate_king_moves(b)
    IN  SelectSeq(moves, LAMBDA mv : KeepsKingSafe(b, mv))

\* Board::generate_legal_moves_into: the buffer is cleared first
generate_legal_moves_into(b) ==
    LET moves == generate_pawn_moves(b) \o generate_knight_moves(b)
                 \o generate_rook_moves(b) \o generate_bishop_moves(b)
                 \o generate_queen_moves(b) \o generate_king_moves(b)
    IN  SelectSeq(moves, LAMBDA mv : KeepsKingSafe(b, mv))

\* The six generators in the order generate_legal_moves_into calls them, before
\* the moves that leave the king attacked are dropped
generate_pseudo_legal_moves(b) ==
    generate_pawn_moves(b) \o generate_knight_moves(b)
    \o generate_rook_moves(b) \o generate_bishop_moves(b)
    \o generate_queen_moves(b) \o generate_king_moves(b)

\* A generate_legal_moves_into that appends to what the buffer holds
KeepBuffer(buffer) == buffer

\* Vec::clear
clear(buffer) == <<>>

\* Board::generate_legal_moves_into with the buffer it is handed: the buffer
\* is cleared, the six generators append to it, retain drops the moves that
\* leave the king attacked
generate_legal_moves_into_buffer(b, buffer) ==
    LET moves == clear(buffer) \o generate_pseudo_legal_moves(b)
    IN  SelectSeq(moves, LAMBDA mv : KeepsKingSafe(b, mv))

\* A Move literal written by hand as the capture test writes it: flags Normal
\* and captured_piece None, whatever stands on `to`
Unlabelled(mv) == [mv EXCEPT !.captured_piece = NoPiece, !.flags = Normal]

\* The moves a caller hands to make_move without asking generate_legal_moves:
\* every generated move, legal or not, and every capture among them built by
\* hand without its capture fields
HandBuiltMoves(b) ==
    LET gen == SeqToSet(generate_pseudo_legal_moves(b))
    IN  gen \cup { Unlabelled(mv) : mv \in { m \in gen : m.flags = Capture } }

\* ------------------------------------------------------------- game result
\* Board::is_insufficient_material
is_insufficient_material(b) ==
    LET white_major == Cardinality(b.white_rooks) + Cardinality(b.white_queens)
        black_major == Cardinality(b.black_rooks) + Cardinality(b.black_queens)
        white_minor == Cardinality(b.white_knights) + Cardinality(b.white_bishops)
        black_minor == Cardinality(b.black_knights) + Cardinality(b.black_bishops)
    IN  IF b.white_pawns # {} \/ b.black_pawns # {} THEN FALSE
        ELSE IF white_major > 0 /\ black_major > 0 THEN FALSE
        ELSE IF white_minor = 0 /\ black_minor = 0 THEN TRUE
        ELSE IF /\ white_minor = 1 /\ black_minor = 0
                /\ b.white_queens = {} /\ b.white_rooks = {} THEN TRUE
        ELSE IF /\ black_minor = 1 /\ white_minor = 0
                /\ b.black_queens = {} /\ b.black_rooks = {} THEN TRUE
        ELSE IF white_minor = 1 /\ Cardinality(b.white_bishops) = 1 /\ black_minor = 0 THEN TRUE
        ELSE IF black_minor = 1 /\ Cardinality(b.black_bishops) = 1 /\ white_minor = 0 THEN TRUE
        ELSE FALSE

\* enum GameResult
Checkmate(c) == [kind |-> "Checkmate", color |-> c]
Stalemate == [kind |-> "Stalemate", color |-> "None"]
DrawFiftyMove == [kind |-> "DrawFiftyMove", color |-> "None"]
DrawRepetition == [kind |-> "DrawRepetition", color |-> "None"]
DrawInsufficientMaterial == [kind |-> "DrawInsufficientMaterial", color |-> "None"]
Ongoing == [kind |-> "Ongoing", color |-> "None"]

\* A game_result that tested the material before the clock
DrawOrOngoingMaterialFirst(b) ==
    IF is_insufficient_material(b) THEN DrawInsufficientMaterial
    ELSE IF b.halfmove_clock >= 100 THEN DrawFiftyMove
    ELSE Ongoing

\* A game_result that takes a position with eight moves on the undo stack
\* for one come back a third time
DrawOrOngoingWithRepetition(b) ==
    IF b.halfmove_clock >= 100 THEN DrawFiftyMove
    ELSE IF is_insufficient_material(b) THEN DrawInsufficientMaterial
    ELSE IF Len(b.history) >= 8 THEN DrawRepetition
    ELSE Ongoing

\* The checks of game_result that follow the empty-move-list test
DrawOrOngoing(b) ==
    IF b.halfmove_clock >= 100 THEN DrawFiftyMove
    ELSE IF is_insufficient_material(b) THEN DrawInsufficientMaterial
    ELSE Ongoing

\* game_result, given the list generate_legal_moves returned
ResultFor(b, legal) ==
    LET king_sq == try_index(trailing_zeros(b[BitSetOf(b.turn, King)]))
    IN  IF legal = <<>> /\ king_sq # NoSquare
        THEN IF is_square_attacked(b, king_sq, opposite(b.turn))
             THEN Checkmate(b.turn)
             ELSE Stalemate
        ELSE DrawOrOngoing(b)

\* Board::game_result
game_result(b) == ResultFor(b, generate_legal_moves(b))

\* -------------------------------------------------------------------- perft
\* A count of the moves in place of the sum of their subtrees
CountSeq(ns) == Len(ns)

RECURSIVE SumSeq(_)
SumSeq(ns) == IF ns = <<>> THEN 0 ELSE Head(ns) + SumSeq(Tail(ns))

\* perft: one node at depth 0; else the legal moves are generated into the
\* buffer, each is made on a clone of the board, and the counts are added
RECURSIVE perft(_, _)
perft(b, depth) ==
    IF depth = 0 THEN 1
    ELSE LET moves_buf == generate_legal_moves_into(b)
         IN  SumSeq([i \in 1..Len(moves_buf) |-> perft(make_move(b, moves_buf[i]), depth - 1)])

\* --------------------------------------------------------------- magic_gen
\* A u64 that is not a BitBoard (a magic, a hash) is the set of its 1 bits too.
\* The number made of the bits of x from bit lo upwards: x >> lo
RECURSIVE ShiftRight(_, _)
ShiftRight(x, lo) ==
    IF x = {} THEN 0
    ELSE (IF trailing_zeros(x) >= lo THEN 2 ^ (trailing_zeros(x) - lo) ELSE 0)
         + ShiftRight(ClearLowest(x), lo)

\* The eight bytes of x, lowest first
Bytes(x) == [k \in 0..7 |-> ShiftRight({ b - 8 * k : b \in { c \in x : c \div 8 = k } }, 0)]

\* Long multiplication of the bytes a and m from byte k on, keeping 64 bits
RECURSIVE MulBytes(_, _, _, _)
MulBytes(a, m, k, carry) ==
    IF k > 7 THEN {}
    ELSE LET t == carry + SumSeq([i \in 1..(k + 1) |-> a[i - 1] * m[k - i + 1]])
         IN  { 8 * k + j : j \in { j \in 0..7 : (t \div (2 ^ j)) % 2 = 1 } }
             \cup MulBytes(a, m, k + 1, t \div 256)

\* u64::wrapping_mul: the product modulo 2^64
wrapping_mul(x, y) == MulBytes(Bytes(x), Bytes(y), 0, 0)

\* magic_gen.rs magic_index
magic_index(magic_entry, occupancy) ==
    ShiftRight(wrapping_mul(occupancy \cap magic_entry.mask, magic_entry.magic),
               magic_entry.shift)

\* The MagicEntry find_magic builds for a candidate magic, with index_bits the
\* population count of the mask, and the piece and square it is tried for
MagicEntryOf(piece, square, magic) ==
    [ piece |-> piece, square |-> square,
      mask |-> relevant_blockers(piece, square),
      magic |-> magic,
      shift |-> 64 - Cardinality(relevant_blockers(piece, square)) ]

\* vec![BitBoard::EMPTY; 1 << index_bits]
EmptyTable(magic_entry) == [i \in 0..(2 ^ (64 - magic_entry.shift) - 1) |-> {}]

\* Long subtraction of the bytes m from the bytes a, from byte k on, keeping
\* 64 bits: a borrow out of the top byte is dropped
RECURSIVE SubBytes(_, _, _, _)
SubBytes(a, m, k, borrow) ==
    IF k > 7 THEN {}
    ELSE LET t == a[k] + 256 - m[k] - borrow
         IN  { 8 * k + j : j \in { j \in 0..7 : (t \div (2 ^ j)) % 2 = 1 } }
             \cup SubBytes(a, m, k + 1, IF t < 256 THEN 1 ELSE 0)

\* u64::wrapping_sub: the difference modulo 2^64
wrapping_sub(x, y) == SubBytes(Bytes(x), Bytes(y), 0, 0)

\* The loop step without the final & mask
NextSubsetUnmasked(occupancy, mask) == wrapping_sub(occupancy, mask)

\* blockers.wrapping_sub(mask) & mask
NextSubset(occupancy, mask) == wrapping_sub(occupancy, mask) \cap mask

\* A fill loop that takes every filled entry as matching
NeverCollides(table_entry, attack) == FALSE

\* The entry is filled, with another attack set: TableFillError
Collides(table_entry, attack) == table_entry # {} /\ table_entry # attack

\* -------------------------------------------------------------- FEN import
\* A FEN is given as fen.split(' ') yields it: a sequence of fields, each a
\* sequence of one-character strings.
DigitChars == <<"0", "1", "2", "3", "4", "5", "6", "7", "8", "9">>
is_digit(c) == \E d \in 1..10 : DigitChars[d] = c
to_digit(c) == (CHOOSE d \in 1..10 : DigitChars[d] = c) - 1

PieceChars == <<"P", "N", "B", "R", "Q", "K", "p", "n", "b", "r", "q", "k">>
IsPieceChar(c) == \E k \in 1..12 : PieceChars[k] = c
\* A match that tells the piece letters apart but not their case
BitSetOfCharIgnoringCase(c) ==
    LET k == CHOOSE j \in 1..12 : PieceChars[j] = c
    IN  BitSetOf(White, PieceOrder[IF k <= 6 THEN k ELSE k - 6])

\* The bit-set the placement loop's match selects for a piece letter
BitSetOfChar(c) ==
    LET k == CHOOSE j \in 1..12 : PieceChars[j] = c
    IN  IF k <= 6 THEN BitSetOf(White, PieceOrder[k]) ELSE BitSetOf(Black, PieceOrder[k - 6])

\* The Board literal from_fen starts from: empty sets, and all four castling bits
EmptyFenBoard ==
    [ white_pawns |-> {}, white_knights |-> {}, white_bishops |-> {},
      white_rooks |-> {}, white_queens |-> {}, white_king |-> {},
      black_pawns |-> {}, black_knights |-> {}, black_bishops |-> {},
      black_rooks |-> {}, black_queens |-> {}, black_king |-> {},
      white_occupied |-> {}, black_occupied |-> {}, occupied |-> {}, empty |-> {},
      turn |-> White,
      castling_rights |-> {W_KINGSIDE_RIGHTS, W_QUEENSIDE_RIGHTS,
                           B_KINGSIDE_RIGHTS, B_QUEENSIDE_RIGHTS},
      en_passant_square |-> NoSquare,
      halfmove_clock |-> 0,
      fullmove_number |-> 1,
      zobrist_hash |-> 0,
      history |-> <<>> ]

FenOk(b) == [kind |-> "Ok", board |-> b, err |-> ""]
\* from_fen was not called yet
NotParsed == [kind |-> "None", board |-> EmptyFenBoard, err |-> ""]
FenErr(msg) == [kind |-> "Err", board |-> EmptyFenBoard, err |-> msg]
\* An arithmetic overflow in a build with overflow checks: the process aborts
FenPanic == [kind |-> "Panic", board |-> EmptyFenBoard, err |-> "overflow"]

\* The piece-placement loop.  rnk and fil are u8 and the bit is
\* 1u64 << (rnk * 8 + fil).  What an overflow does depends on the build: with
\* overflow checks it panics; without them u8 arithmetic wraps modulo 256 and
\* the shift amount is taken modulo 64.
RECURSIVE PlacePieces(_, _, _, _, _, _)
PlacePieces(chars, i, rnk, fil, b, overflow_checks) ==
    IF i > Len(chars) THEN FenOk(b)
    ELSE LET c == chars[i]
         IN  IF c = "/"
             THEN IF rnk = 0 /\ overflow_checks THEN FenPanic
                  ELSE PlacePieces(chars, i + 1, (rnk + 255) % 256, 0, b, overflow_checks)
             ELSE IF is_digit(c)
             THEN IF fil + to_digit(c) > 255 /\ overflow_checks THEN FenPanic
                  ELSE PlacePieces(chars, i + 1, rnk, (fil + to_digit(c)) % 256, b,
                                   overflow_checks)
             ELSE LET square_idx == rnk * 8 + fil
                  IN  IF square_idx > 63 /\ overflow_checks THEN FenPanic
                      ELSE IF ~IsPieceChar(c)
                      THEN FenErr("Invalid FEN string: Invalid piece character")
                      ELSE PlacePieces(chars, i + 1, rnk, (fil + 1) % 256,
                               [b EXCEPT ![BitSetOfChar(c)] = @ \cup {square_idx % 64}],
                               overflow_checks)

\* The castling-field loop: each letter ORs its bit into the mask
RECURSIVE CastlingField(_, _, _)
CastlingField(chars, i, rights) ==
    IF i > Len(chars) THEN [ok |-> TRUE, rights |-> rights]
    ELSE LET c == chars[i]
         IN  IF c = "K" THEN CastlingField(chars, i + 1, rights \cup {W_KINGSIDE_RIGHTS})
             ELSE IF c = "Q" THEN CastlingField(chars, i + 1, rights \cup {W_QUEENSIDE_RIGHTS})
             ELSE IF c = "k" THEN CastlingField(chars, i + 1, rights \cup {B_KINGSIDE_RIGHTS})
             ELSE IF c = "q" THEN CastlingField(chars, i + 1, rights \cup {B_QUEENSIDE_RIGHTS})
             ELSE IF c = "-" THEN CastlingField(chars, i + 1, rights)
             ELSE [ok |-> FALSE, rights |-> rights]

FileChars == <<"a", "b", "c", "d", "e", "f", "g", "h">>

\* The en-passant field: NoSquare for "-", 65 for a malformed square
EnPassantField(chars) ==
    IF chars = <<"-">> THEN NoSquare
    ELSE IF Len(chars) # 2 THEN 65
    ELSE IF ~(\E f \in 1..8 : FileChars[f] = chars[1]) THEN 65
    ELSE IF ~(is_digit(chars[2]) /\ to_digit(chars[2]) \in 1..8) THEN 65
    ELSE SquareNew((CHOOSE f \in 1..8 : FileChars[f] = chars[1]) - 1, to_digit(chars[2]) - 1)

\* The value of a run of decimal digits
RECURSIVE DigitsValue(_, _, _)
DigitsValue(chars, i, acc) ==
    IF i > Len(chars) THEN acc
    ELSE DigitsValue(chars, i + 1, acc * 10 + to_digit(chars[i]))

\* str::parse::<uN>(): an optional '+', then at least one digit, the value at
\* most max; -1 for an error
ParseUnsigned(chars, max) ==
    LET digits == IF chars # <<>> /\ chars[1] = "+" THEN Tail(chars) ELSE chars
    IN  IF digits = <<>> THEN -1
        ELSE IF \E i \in 1..Len(digits) : ~is_digit(digits[i]) THEN -1
        ELSE IF DigitsValue(digits, 1, 0) > max THEN -1
        ELSE DigitsValue(digits, 1, 0)

\* Board::from_fen, in a build with or without overflow checks
from_fen(parts, overflow_checks) ==
    IF Len(parts) # 6 THEN FenErr("FEN must have 6 parts")
    ELSE LET placed == PlacePieces(parts[1], 1, 7, 0, EmptyFenBoard, overflow_checks)
             castling == CastlingField(parts[3], 1, EmptyFenBoard.castling_rights)
             ep == EnPassantField(parts[4])
             halfmove == ParseUnsigned(parts[5], 255)
             fullmove == ParseUnsigned(parts[6], 65535)
         IN  IF placed.kind # "Ok" THEN placed
             ELSE IF parts[2] # <<"w">> /\ parts[2] # <<"b">>
             THEN FenErr("Invalid FEN string: Invalid active color")
             ELSE IF ~castling.ok
             THEN FenErr("Invalid FEN string: Invalid castling rights")
             ELSE IF ep = 65
             THEN FenErr("Invalid FEN string: Invalid en passant square")
             ELSE IF halfmove = -1
             THEN FenErr("Invalid FEN string: Invalid halfmove clock")
             ELSE IF fullmove = -1
             THEN FenErr("Invalid FEN string: Invalid fullmove number")
             ELSE FenOk([RecomputeOccupancy(placed.board) EXCEPT
                            !.turn = IF parts[2] = <<"w">> THEN White ELSE Black,
                            !.castling_rights = castling.rights,
                            !.en_passant_square = ep,
                            !.halfmove_clock = halfmove,
                            !.fullmove_number = fullmove])

\* ------------------------------------------------------------ the positions
\* "8/4k3/8/3pP3/8/4K3/8/8 w - d6 0 3": a black pawn has just played d7-d5 beside the white pawn on e5
FenEnPassant ==
    << <<"8", "/", "4", "k", "3", "/", "8", "/", "3", "p", "P", "3", "/", "8", "/", "4", "K", "3", "/", "8", "/", "8">>,
       <<"w">>, <<"-">>, <<"d", "6">>, <<"0">>, <<"3">> >>
\* "1n6/P3k3/8/8/8/4K3/7p/6N1 w - - 0 50": pawns one step from their back ranks, each with a push and a capture
FenPromotion ==
    << <<"1", "n", "6", "/", "P", "3", "k", "3", "/", "8", "/", "8", "/", "8", "/", "4", "K", "3", "/", "7", "p", "/", "6", "N", "1">>,
       <<"w">>, <<"-">>, <<"-">>, <<"0">>, <<"5", "0">> >>
\* "r3k2r/p6p/8/8/8/8/P6P/R3K2R w KQkq - 0 1": both sides may castle on both wings
FenCastleWhite ==
    << <<"r", "3", "k", "2", "r", "/", "p", "6", "p", "/", "8", "/", "8", "/", "8", "/", "8", "/", "P", "6", "P", "/", "R", "3", "K", "2", "R">>,
       <<"w">>, <<"K", "Q", "k", "q">>, <<"-">>, <<"0">>, <<"1">> >>
\* "r3k2r/p7/7N/8/8/8/4K3/8 b kq - 0 1": a white knight on h6 attacks g8
FenCastleBlack ==
    << <<"r", "3", "k", "2", "r", "/", "p", "7", "/", "7", "N", "/", "8", "/", "8", "/", "8", "/", "4", "K", "3", "/", "8">>,
       <<"b">>, <<"k", "q">>, <<"-">>, <<"0">>, <<"1">> >>
\* "6k1/p3N3/8/8/8/8/4K3/8 b - - 0 1": the white knight on e7 checks the king on g8
FenKnightCheck ==
    << <<"6", "k", "1", "/", "p", "3", "N", "3", "/", "8", "/", "8", "/", "8", "/", "8", "/", "4", "K", "3", "/", "8">>,
       <<"b">>, <<"-">>, <<"-">>, <<"0">>, <<"1">> >>
\* "6k1/4N1B1/4P2K/8/8/8/8/8 b - - 0 1": the knight on e7 mates the king on g8
FenKnightMate ==
    << <<"6", "k", "1", "/", "4", "N", "1", "B", "1", "/", "4", "P", "2", "K", "/", "8", "/", "8", "/", "8", "/", "8", "/", "8">>,
       <<"b">>, <<"-">>, <<"-">>, <<"0">>, <<"1">> >>
\* "7k/6Q1/6K1/8/8/8/8/8 b - - 100 80": the queen on g7 mates the king on h8
FenQueenMate ==
    << <<"7", "k", "/", "6", "Q", "1", "/", "6", "K", "1", "/", "8", "/", "8", "/", "8", "/", "8", "/", "8">>,
       <<"b">>, <<"-">>, <<"-">>, <<"1", "0", "0">>, <<"8", "0">> >>
\* "7k/5Q2/6K1/8/8/8/8/8 b - - 120 90": the king on h8 has no move and is not attacked
FenStalemate ==
    << <<"7", "k", "/", "5", "Q", "2", "/", "6", "K", "1", "/", "8", "/", "8", "/", "8", "/", "8", "/", "8">>,
       <<"b">>, <<"-">>, <<"-">>, <<"1", "2", "0">>, <<"9", "0">> >>
\* "8/8/4k3/8/8/4K3/8/8 w - - 100 80": bare kings with the clock at 100
FenFiftyBare ==
    << <<"8", "/", "8", "/", "4", "k", "3", "/", "8", "/", "8", "/", "4", "K", "3", "/", "8", "/", "8">>,
       <<"w">>, <<"-">>, <<"-">>, <<"1", "0", "0">>, <<"8", "0">> >>
\* "4k3/8/8/8/8/4p3/4P3/8 w - - 0 1": White has no king and a blocked pawn: no move at all
FenNoKing ==
    << <<"4", "k", "3", "/", "8", "/", "8", "/", "8", "/", "8", "/", "4", "p", "3", "/", "4", "P", "3", "/", "8">>,
       <<"w">>, <<"-">>, <<"-">>, <<"0">>, <<"1">> >>
\* "8/8/4k3/8/8/4K3/4P3/8 b - - 100 80": king and pawn against king with the clock at 100
FenFiftyPawn ==
    << <<"8", "/", "8", "/", "4", "k", "3", "/", "8", "/", "8", "/", "4", "K", "3", "/", "4", "P", "3", "/", "8">>,
       <<"b">>, <<"-">>, <<"-">>, <<"1", "0", "0">>, <<"8", "0">> >>

\* "Rn2k1n1/8/8/8/8/8/4K3/8 b q - 0 1": the white rook has just taken the rook on a8
FenRookCorner ==
    << <<"R", "n", "2", "k", "1", "n", "1", "/", "8", "/", "8", "/", "8", "/", "8", "/", "8", "/", "4", "K", "3", "/", "8">>,
       <<"b">>, <<"q">>, <<"-">>, <<"0">>, <<"1">> >>

\* "8/4k3/8/8/3p4/8/4P3/4K3 w - - 0 1": after e2-e4 the black pawn on d4 may take en passant on e3
FenDoublePush ==
    << <<"8", "/", "4", "k", "3", "/", "8", "/", "8", "/", "3", "p", "4", "/", "8", "/", "4", "P", "3", "/", "4", "K", "3">>,
       <<"w">>, <<"-">>, <<"-">>, <<"0">>, <<"1">> >>

\* "r3k2r/p7/8/8/8/6n1/P7/R3K2R b KQkq - 0 1": kings and rooks at home, a black knight on g3 attacks the rook on h1
FenCornerCapture ==
    << <<"r", "3", "k", "2", "r", "/", "p", "7", "/", "8", "/", "8", "/", "8", "/", "6", "n", "1", "/", "P", "7", "/", "R", "3", "K", "2", "R">>,
       <<"b">>, <<"K", "Q", "k", "q">>, <<"-">>, <<"0">>, <<"1">> >>

\* "8/4k3/8/8/8/8/P3K3/8 w - - 0 1": king and pawn against king, the kings far from each other and from the pawn
FenShuffle ==
    << <<"8", "/", "4", "k", "3", "/", "8", "/", "8", "/", "8", "/", "8", "/", "P", "3", "K", "3", "/", "8">>,
       <<"w">>, <<"-">>, <<"-">>, <<"0">>, <<"1">> >>

StartFens ==
    { FenEnPassant,
      FenCornerCapture,
      FenDoublePush,
      FenRookCorner,
      FenPromotion,
      FenCastleWhite,
      FenCastleBlack,
      FenKnightCheck,
      FenKnightMate,
      FenQueenMate,
      FenStalemate,
      FenFiftyBare,
      FenNoKing,
      FenFiftyPawn }

\* The boards a game is started from: Board::default() and the imported FENs
StartBoards == {DefaultBoard} \cup { from_fen(f, TRUE).board : f \in StartFens }

\* ------------------------------------------------------- the texts imported
\* "rnbqkbnr/pppppppp/8/8/8/8/PPPPPPPP/RNBQKBNR w KQkq - 0 1"
FenStart ==
    << <<"r", "n", "b", "q", "k", "b", "n", "r", "/", "p", "p", "p", "p", "p", "p", "p", "p", "/",
         "8", "/", "8", "/", "8", "/", "8", "/",
         "P", "P", "P", "P", "P", "P", "P", "P", "/", "R", "N", "B", "Q", "K", "B", "N", "R">>,
       <<"w">>, <<"K", "Q", "k", "q">>, <<"-">>, <<"0">>, <<"1">> >>

\* The pieces a side holds besides its king
Extras ==
    { <<>>, <<"N">>, <<"B">>, <<"R">>, <<"Q">>, <<"P">>,
      <<"N", "N">>, <<"B", "N">>, <<"B", "B">>, <<"B", "R">> }

\* The same pieces in Black's letters
Lower(cs) == [i \in 1..Len(cs) |-> PieceChars[(CHOOSE k \in 1..6 : PieceChars[k] = cs[i]) + 6]]

\* A rank holding the pieces cs on its first files
RankOf(cs) == cs \o <<DigitChars[9 - Len(cs)]>>

\* "8/<b>/4k3/8/8/4K3/<w>/8 w - - 0 1": kings on e6 and e3, White's extras on
\* the second rank and Black's on the seventh
FenMaterial(w, b) ==
    << <<"8", "/">> \o RankOf(Lower(b)) \o <<"/", "4", "k", "3", "/", "8", "/", "8", "/", "4", "K", "3", "/">>
         \o RankOf(w) \o <<"/", "8">>,
       <<"w">>, <<"-">>, <<"-">>, <<"0">>, <<"1">> >>

\* The castling fields: "-" and every selection of K, Q, k, q in that order
CastlingFields ==
    { <<"-">> } \cup
    { SelectSeq(<<"K", "Q", "k", "q">>, LAMBDA c : c \in keep) :
        keep \in (SUBSET {"K", "Q", "k", "q"}) \ {{}} }

\* "r3k2r/8/8/8/8/8/8/R3K2R <turn> <castling> - 0 1"
FenCastling(turn, castling) ==
    << <<"r", "3", "k", "2", "r", "/", "8", "/", "8", "/", "8", "/", "8", "/", "8", "/", "8", "/",
         "R", "3", "K", "2", "R">>,
       <<turn>>, castling, <<"-">>, <<"0">>, <<"1">> >>

\* "8/8/4k3/8/8/4K3/8/8"
BarePlacement ==
    <<"8", "/", "8", "/", "4", "k", "3", "/", "8", "/", "8", "/", "4", "K", "3", "/", "8", "/", "8">>

\* Texts that are wrong in one field each
FenMalformed ==
    { \* five fields, seven fields
      << BarePlacement, <<"w">>, <<"-">>, <<"-">>, <<"0">> >>,
      << BarePlacement, <<"w">>, <<"-">>, <<"-">>, <<"0">>, <<"1">>, <<"1">> >>,
      \* a letter that names no piece
      << <<"8", "/", "8", "/", "4", "k", "3", "/", "8", "/", "8", "/", "4", "K", "2", "x", "/", "8", "/", "8">>,
         <<"w">>, <<"-">>, <<"-">>, <<"0">>, <<"1">> >>,
      \* nine ranks
      << BarePlacement \o <<"/", "8">>, <<"w">>, <<"-">>, <<"-">>, <<"0">>, <<"1">> >>,
      \* nine files: an empty run of 9, nine pawns on the first rank, nine
      \* pawns on the eighth rank
      << <<"9", "/", "8", "/", "4", "k", "3", "/", "8", "/", "8", "/", "4", "K", "3", "/", "8", "/", "8">>,
         <<"w">>, <<"-">>, <<"-">>, <<"0">>, <<"1">> >>,
      << <<"8", "/", "8", "/", "4", "k", "3", "/", "8", "/", "8", "/", "4", "K", "3", "/", "8", "/",
           "P", "P", "P", "P", "P", "P", "P", "P", "P">>,
         <<"w">>, <<"-">>, <<"-">>, <<"0">>, <<"1">> >>,
      << <<"p", "p", "p", "p", "p", "p", "p", "p", "p", "/", "8", "/", "4", "k", "3", "/", "8", "/", "8", "/",
           "4", "K", "3", "/", "8", "/", "8">>,
         <<"w">>, <<"-">>, <<"-">>, <<"0">>, <<"1">> >>,
      \* an active color that is neither w nor b
      << BarePlacement, <<"x">>, <<"-">>, <<"-">>, <<"0">>, <<"1">> >>,
      << BarePlacement, <<"w", "b">>, <<"-">>, <<"-">>, <<"0">>, <<"1">> >>,
      \* a castling letter outside KQkq
      << BarePlacement, <<"w">>, <<"K", "x">>, <<"-">>, <<"0">>, <<"1">> >>,
      \* en-passant squares: one character, a file outside a..h, a rank outside 1..8
      << BarePlacement, <<"w">>, <<"-">>, <<"e">>, <<"0">>, <<"1">> >>,
      << BarePlacement, <<"w">>, <<"-">>, <<"i", "3">>, <<"0">>, <<"1">> >>,
      << BarePlacement, <<"w">>, <<"-">>, <<"e", "9">>, <<"0">>, <<"1">> >>,
      \* clocks that are no numbers
      << BarePlacement, <<"w">>, <<"-">>, <<"-">>, <<"x">>, <<"1">> >>,
      << BarePlacement, <<"w">>, <<"-">>, <<"-">>, <<"0">>, <<"1", "x">> >>,
      << BarePlacement, <<"w">>, <<"-">>, <<"-">>, <<"0">>, <<>> >> }

FenInputs ==
    {FenStart}
    \cup { FenMaterial(w, b) : w \in Extras, b \in Extras }
    \cup { FenCastling(turn, castling) : turn \in {"w", "b"}, castling \in CastlingFields }
    \cup FenMalformed

\* ------------------------------------------------------------ state machine
\* board  : the Board the driver owns (its history field is the undo stack)
\* moves  : the moves made and not yet unmade, oldest first
\* saved  : the clones of the board taken before each of those moves
\* clone  : the clone last pushed on, or popped off, saved: after a make_move
\*          the board before it, after an unmake_move the board it must restore
\* legal  : the list generate_legal_moves returned for board
\* result : the verdict game_result returned for board
\* op     : the last operation: "start", "make", "unmake" or "abort"
\* fen      : the text handed to Board::from_fen, split into its fields
\* parsed   : what from_fen returned for it (kind "None" before the call)
\* material : the answers is_insufficient_material gave for the parsed board
\* entry    : the MagicEntry try_make_table is called with, and its piece and square
\* table    : the table try_make_table is filling
\* blockers : the subset of the mask the loop of try_make_table is at
\* made     : "filling" inside that loop, then "Ok" or "Err", what it returned
VARIABLES board, moves, saved, clone, legal, result, op,
          fen, parsed, material,
          entry, table, blockers, made

vars == <<board, moves, saved, clone, legal, result, op,
          fen, parsed, material, entry, table, blockers, made>>

\* No FEN was imported
NoImport ==
    /\ fen = <<>>
    /\ parsed = NotParsed
    /\ material = <<>>

\* No magic table is being made
NoTable ==
    /\ entry = <<>>
    /\ table = <<>>
    /\ blockers = {}
    /\ made = "idle"

\* A game was started from Board::default() and nothing was played
NoGame ==
    /\ board = DefaultBoard
    /\ moves = <<>>
    /\ saved = <<>>
    /\ clone = DefaultBoard
    /\ legal = <<>>
    /\ result = Ongoing
    /\ op = "idle"

Init ==
    /\ board \in StartBoards
    /\ moves = <<>>
    /\ saved = <<>>
    /\ clone = board
    /\ legal = generate_legal_moves(board)
    /\ result = ResultFor(board, legal)
    /\ op = "start"
    /\ NoImport
    /\ NoTable

\* The driver plays one of the moves the generator returned
MakeMove ==
    /\ op # "abort"
    /\ Len(board.history) < MaxPly
    /\ \E i \in 1..Len(legal) :
          /\ board' = make_move(board, legal[i])
          /\ moves' = Append(moves, legal[i])
    /\ saved' = Append(saved, board)
    /\ clone' = board
    /\ legal' = generate_legal_moves(board')
    /\ result' = ResultFor(board', legal')
    /\ op' = "make"
    /\ UNCHANGED <<fen, parsed, material, entry, table, blockers, made>>

\* The driver takes back the last move it played
UnmakeMove ==
    /\ op # "abort"
    /\ moves # <<>>
    /\ ~UnmakePanics(board)
    /\ board' = unmake_move(board, moves[Len(moves)])
    /\ moves' = SubSeq(moves, 1, Len(moves) - 1)
    /\ saved' = SubSeq(saved, 1, Len(saved) - 1)
    /\ clone' = saved[Len(saved)]
    /\ legal' = generate_legal_moves(board')
    /\ result' = ResultFor(board', legal')
    /\ op' = "unmake"
    /\ UNCHANGED <<fen, parsed, material, entry, table, blockers, made>>

\* The moves unmake_move may be handed: the last one played or, when none was
\* played, any move at all (here the generated ones and one that never was)
UnmakeArguments ==
    IF moves # <<>> THEN {moves[Len(moves)]}
    ELSE SeqToSet(legal) \cup {Mv(A1, A8, Rook, NoPiece, NoPiece, Normal)}

\* unmake_move with nothing to take back, or with a captured King in the
\* snapshot: the process aborts
UnmakeAbort ==
    /\ op # "abort"
    /\ UnmakePanics(board)
    /\ \E mv \in UnmakeArguments : board' = unmake_move_aborted(board, mv)
    /\ op' = "abort"
    /\ UNCHANGED <<moves, saved, clone, legal, result>>
    /\ UNCHANGED <<fen, parsed, material, entry, table, blockers, made>>

Next == MakeMove \/ UnmakeMove \/ UnmakeAbort

Spec == Init /\ [][Next]_vars

\* ----------------------------------------- state machine: hand-built moves
\* The caller plays a move of its own making, legal or not
MakeHandBuilt ==
    /\ op # "abort"
    /\ Len(board.history) < MaxPly
    /\ \E mv \in HandBuiltMoves(board) :
          /\ board' = make_move(board, mv)
          /\ moves' = Append(moves, mv)
    /\ saved' = Append(saved, board)
    /\ clone' = board
    /\ legal' = generate_legal_moves(board')
    /\ result' = ResultFor(board', legal')
    /\ op' = "make"
    /\ UNCHANGED <<fen, parsed, material, entry, table, blockers, made>>

NextHand == MakeHandBuilt \/ UnmakeMove \/ UnmakeAbort

SpecHand == Init /\ [][NextHand]_vars

\* ------------------------------------------- state machine: placement
\* A caller places and removes pieces with add_piece and delete_piece.  moves
\* holds the arguments of the calls made, saved the board before each call.
PlacementBoards == { DefaultBoard, from_fen(FenEnPassant, TRUE).board,
                     from_fen(FenCastleBlack, TRUE).board }

\* d4, empty in the three positions, and e2 and e8, which hold pieces in
\* Board::default()
PlacementSquares == {27, 12, 60}

InitPlace ==
    /\ board \in PlacementBoards
    /\ moves = <<>>
    /\ saved = <<>>
    /\ clone = board
    /\ legal = <<>>
    /\ result = Ongoing
    /\ op = "start"
    /\ NoImport
    /\ NoTable

\* add_piece(square, piece, color)
AddPiece ==
    /\ Len(moves) < MaxCalls
    /\ \E square \in PlacementSquares, piece \in Piece, color \in Color :
          /\ board' = add_piece(board, square, piece, color)
          /\ moves' = Append(moves, [square |-> square, piece |-> piece, color |-> color])
    /\ saved' = Append(saved, board)
    /\ clone' = board
    /\ op' = "add"
    /\ UNCHANGED <<legal, result>>
    /\ UNCHANGED <<fen, parsed, material, entry, table, blockers, made>>

\* delete_piece(square)
DeletePiece ==
    /\ Len(moves) < MaxCalls
    /\ \E square \in PlacementSquares :
          /\ board' = delete_piece(board, square)
          /\ moves' = Append(moves, [square |-> square, piece |-> NoPiece, color |-> "None"])
    /\ saved' = Append(saved, board)
    /\ clone' = board
    /\ op' = "delete"
    /\ UNCHANGED <<legal, result>>
    /\ UNCHANGED <<fen, parsed, material, entry, table, blockers, made>>

NextPlace == AddPiece \/ DeletePiece

SpecPlace == InitPlace /\ [][NextPlace]_vars

\* ------------------------------------------ state machine: repetition
\* Two players move their kings to and fro and ask game_result after every
\* move.  The squares the kings keep to: e2, d2, e3 and e7, d7, e6.
ShuffleSquares == {12, 11, 20, 52, 51, 44}

InitRepeat ==
    /\ board = from_fen(FenShuffle, TRUE).board
    /\ moves = <<>>
    /\ saved = <<>>
    /\ clone = board
    /\ legal = generate_legal_moves(board)
    /\ result = ResultFor(board, legal)
    /\ op = "start"
    /\ NoImport
    /\ NoTable

\* make_move of a generated legal king move within the squares, then
\* game_result
MakeShuffle ==
    /\ Len(board.history) < MaxShufflePly
    /\ \E i \in 1..Len(legal) :
          /\ legal[i].piece = King
          /\ legal[i].flags = Normal
          /\ legal[i].to \in ShuffleSquares
          /\ board' = make_move(board, legal[i])
          /\ moves' = Append(moves, legal[i])
    /\ saved' = Append(saved, board)
    /\ clone' = board
    /\ legal' = generate_legal_moves(board')
    /\ result' = ResultFor(board', legal')
    /\ op' = "make"
    /\ UNCHANGED <<fen, parsed, material, entry, table, blockers, made>>

NextRepeat == MakeShuffle

SpecRepeat == InitRepeat /\ [][NextRepeat]_vars

\* --------------------------------------------------- state machine: import
\* A caller hands one text to from_fen and asks the parsed board for its
\* material verdict.
InitFen ==
    /\ fen \in FenInputs
    /\ parsed = NotParsed
    /\ material = <<>>
    /\ NoGame
    /\ NoTable

\* Board::from_fen(fen), in either build
ImportFen ==
    /\ parsed.kind = "None"
    /\ \E overflow_checks \in BOOLEAN : parsed' = from_fen(fen, overflow_checks)
    /\ UNCHANGED <<fen, material, entry, table, blockers, made>>
    /\ UNCHANGED <<board, moves, saved, clone, legal, result, op>>

\* is_insufficient_material() on the board from_fen returned
ClassifyMaterial ==
    /\ parsed.kind = "Ok"
    /\ material = <<>>
    /\ material' = <<is_insufficient_material(parsed.board)>>
    /\ UNCHANGED <<fen, parsed, entry, table, blockers, made>>
    /\ UNCHANGED <<board, moves, saved, clone, legal, result, op>>

NextFen == ImportFen \/ ClassifyMaterial

SpecFen == InitFen /\ [][NextFen]_vars

\* ---------------------------------------------- state machine: magic_gen
\* The candidates: for a bishop on a1, a bishop on d1 and a rook on d4 a magic
\* that hashes the subsets of the mask apart and one that does not, and for
\* the bishop on a1 the magics 0 and 1.
MagicInputs ==
    { MagicEntryOf(Bishop, A1, {1, 8, 18, 21, 24, 34, 40, 42, 50, 52, 59, 60, 63}),
      MagicEntryOf(Bishop, A1, {12, 23, 28, 30, 31, 41, 48, 52, 55, 61}),
      MagicEntryOf(Bishop, A1, {}),
      MagicEntryOf(Bishop, A1, {0}),
      MagicEntryOf(Bishop, D1, {4, 5, 15, 30, 38, 45, 51, 62}),
      MagicEntryOf(Bishop, D1, {14, 38, 41, 45, 47, 51, 53, 58}),
      MagicEntryOf(Rook, 27, {6, 11, 21, 33, 36, 38, 49, 50, 62}),
      MagicEntryOf(Rook, 27, {0, 1, 2, 13, 18, 24, 33, 38, 43, 51, 53, 56, 57, 63}) }

\* try_make_table at the head of its loop, for one of the candidates
InitMagic ==
    /\ entry \in MagicInputs
    /\ table = EmptyTable(entry)
    /\ blockers = {}
    /\ made = "filling"
    /\ NoGame
    /\ NoImport

\* The end of a loop iteration: the next subset, and Ok(table) after the last
NextBlockers ==
    /\ blockers' = NextSubset(blockers, entry.mask)
    /\ made' = IF blockers' = {} THEN "Ok" ELSE "filling"
    /\ UNCHANGED entry
    /\ UNCHANGED <<fen, parsed, material>>
    /\ UNCHANGED <<board, moves, saved, clone, legal, result, op>>

\* One iteration of try_make_table: the entry the subset hashes to is empty
\* and takes the subset's attack set
StoreEntry ==
    /\ made = "filling"
    /\ table[magic_index(entry, blockers)] = {}
    /\ table' = [table EXCEPT ![magic_index(entry, blockers)] =
                                  sliding_moves(entry.piece, entry.square, blockers)]
    /\ NextBlockers

\* One iteration: the entry is filled and holds the subset's attack set
MatchEntry ==
    /\ made = "filling"
    /\ table[magic_index(entry, blockers)] # {}
    /\ ~Collides(table[magic_index(entry, blockers)],
                 sliding_moves(entry.piece, entry.square, blockers))
    /\ UNCHANGED table
    /\ NextBlockers

\* One iteration: the entry holds another attack set, Err(TableFillError)
RejectTable ==
    /\ made = "filling"
    /\ Collides(table[magic_index(entry, blockers)],
                sliding_moves(entry.piece, entry.square, blockers))
    /\ made' = "Err"
    /\ UNCHANGED <<entry, table, blockers>>
    /\ UNCHANGED <<fen, parsed, material>>
    /\ UNCHANGED <<board, moves, saved, clone, legal, result, op>>

NextMagic == StoreEntry \/ MatchEntry \/ RejectTable

SpecMagic == InitMagic /\ [][NextMagic]_vars

\* try_make_table is straight-line code in one thread: an iteration that can
\* be run is run.  This is weak fairness of NextMagic, written out with
\* ENABLED <<NextMagic>>_vars replaced by what it amounts to: while the loop
\* is filling, one of the three branches of an iteration can be taken, and
\* each of them changes blockers or made.
LoopRuns == []<>(made # "filling") \/ []<><<NextMagic>>_vars

SpecMagicLoop == SpecMagic /\ LoopRuns

\* ------------------------------------------ state machine: ray casting
\* Squares put on the board beside the piece's own: a corner, an edge square,
\* two squares of the centre and the far corner
RayProbes == {0, 3, 27, 36, 63}

\* The occupancies sliding_moves is handed for a piece on the square
RayOccupancies(square) == SUBSET (RayProbes \cup {square})

\* A rook or a bishop on any square, its mask from relevant_blockers as
\* find_magic takes it, and an occupancy
InitRay ==
    /\ entry \in { MagicEntryOf(piece, square, {}) :
                      piece \in {Rook, Bishop}, square \in AllSquares }
    /\ blockers \in RayOccupancies(entry.square)
    /\ table = <<>>
    /\ made = "ray"
    /\ NoGame
    /\ NoImport

\* piece.sliding_moves(square, blockers)
CastRays ==
    /\ made = "ray"
    /\ table' = <<sliding_moves(entry.piece, entry.square, blockers)>>
    /\ made' = "cast"
    /\ UNCHANGED <<entry, blockers>>
    /\ UNCHANGED <<fen, parsed, material>>
    /\ UNCHANGED <<board, moves, saved, clone, legal, result, op>>

NextRay == CastRays

SpecRay == InitRay /\ [][NextRay]_vars

\* ------------------------------------------------- the rules of the game
\* What the properties below are measured against: attack by the rules of
\* chess, computed from piece geometry and not from the engine's tables.
Sign(x) == IF x > 0 THEN 1 ELSE IF x < 0 THEN -1 ELSE 0

\* The squares strictly between a and c, which share a line
Between(a, c) ==
    LET df == Sign(file(c) - file(a))
        dr == Sign(rank(c) - rank(a))
        n == IF Abs(file(c) - file(a)) > Abs(rank(c) - rank(a))
             THEN Abs(file(c) - file(a)) ELSE Abs(rank(c) - rank(a))
    IN  { SquareNew(file(a) + k * df, rank(a) + k * dr) : k \in 1..(n - 1) }

\* The piece of color c on `from` attacks `to`
ChessAttacks(b, c, from, to) ==
    LET fd == Abs(file(from) - file(to))
        rd == Abs(rank(from) - rank(to))
    IN  /\ from # to
        /\ \/ /\ from \in b[BitSetOf(c, Pawn)]
              /\ fd = 1
              /\ rank(to) - rank(from) = (IF c = White THEN 1 ELSE -1)
           \/ /\ from \in b[BitSetOf(c, Knight)]
              /\ (fd = 1 /\ rd = 2) \/ (fd = 2 /\ rd = 1)
           \/ /\ from \in b[BitSetOf(c, King)]
              /\ fd <= 1 /\ rd <= 1
           \/ /\ from \in b[BitSetOf(c, Rook)] \cup b[BitSetOf(c, Queen)]
              /\ fd = 0 \/ rd = 0
              /\ Between(from, to) \cap b.occupied = {}
           \/ /\ from \in b[BitSetOf(c, Bishop)] \cup b[BitSetOf(c, Queen)]
              /\ fd = rd
              /\ Between(from, to) \cap b.occupied = {}

\* Some piece of color c attacks sq
ChessAttacked(b, sq, c) == \E from \in AllSquares : ChessAttacks(b, c, from, sq)

\* ------------------------------------------------------------- properties
\* The board the game was started from
Origin == IF saved # <<>> THEN saved[1] ELSE clone

\* The move the last make_move played
LastMove == moves[Len(moves)]

\* The fields a round trip must restore
BoardFields ==
    { "white_pawns", "white_knights", "white_bishops", "white_rooks", "white_queens",
      "white_king", "black_pawns", "black_knights", "black_bishops", "black_rooks",
      "black_queens", "black_king", "white_occupied", "black_occupied", "occupied",
      "empty", "castling_rights", "en_passant_square", "halfmove_clock",
      "fullmove_number", "turn" }

SameFields(a, b) == \A f \in BoardFields : a[f] = b[f]

\* C1: make_move(m) followed by unmake_move(m), for a move m the generator
\* returned, restores every field of the board: after an unmake_move the board
\* equals the clone taken before the move.
RoundTripRestores == op = "unmake" => SameFields(board, clone)

\* C2: in a position that has a king of the side to move, no move the generator
\* returned leaves the mover's king on a square the opponent attacks.
NoSelfCheck ==
    (op = "make" /\ clone[BitSetOf(clone.turn, King)] # {}) =>
        \A k \in board[BitSetOf(clone.turn, King)] :
            ~ChessAttacked(board, k, opposite(clone.turn))

\* The bit-sets of b agree with each other
Consistent(b) ==
    LET Sets(c) == { b[BitSetOf(c, p)] : p \in Piece }
    IN  /\ \A c \in Color : \A p, q \in Piece :
              p # q => b[BitSetOf(c, p)] \cap b[BitSetOf(c, q)] = {}
        /\ b.white_occupied = UNION Sets(White)
        /\ b.black_occupied = UNION Sets(Black)
        /\ b.white_occupied \cap b.black_occupied = {}
        /\ b.occupied = b.white_occupied \cup b.black_occupied
        /\ b.empty = AllSquares \ b.occupied

\* C3: in every position reached from Board::default() by make_move on
\* generated legal moves and matching unmake_move calls, the six bit-sets of a
\* color are pairwise disjoint, each occupancy is the union of its color's
\* bit-sets, the occupancies are disjoint, occupied is their union and empty
\* its complement.
BitSetConsistency == Origin = DefaultBoard => Consistent(board)

\* C3 witness: two moves were made from Board::default() and one was unmade
BitSetConsistencyWitness ==
    /\ op = "unmake"
    /\ Origin = DefaultBoard
    /\ Len(moves) = 1
    /\ board # DefaultBoard

\* The last move took a piece: an opponent piece stood on its destination, or
\* it was an en-passant capture
LastMoveCaptured ==
    \/ LastMove.to \in clone[OccupiedOf(opposite(clone.turn))]
    \/ LastMove.flags = EnPassant

\* C4: after make_move(m) the halfmove clock is 0 if m moved a pawn or
\* captured a piece, and is the previous clock plus 1 otherwise.
HalfmoveClockRule ==
    op = "make" =>
        board.halfmove_clock =
            IF LastMove.from \in clone[BitSetOf(clone.turn, Pawn)] \/ LastMoveCaptured
            THEN 0
            ELSE clone.halfmove_clock + 1

\* C5: make_move adds 1 to fullmove_number when Black moved and leaves it
\* alone when White moved; n half-moves after a start with White to move the
\* counter has grown by floor(n / 2).
FullmoveCounterRule ==
    /\ op = "make" =>
          board.fullmove_number =
              clone.fullmove_number + (IF clone.turn = Black THEN 1 ELSE 0)
    /\ Origin.turn = White =>
          board.fullmove_number = Origin.fullmove_number + (Len(moves) \div 2)

\* C5 witness: White and then Black have moved, and the counter grew by one
FullmoveCounterWitness ==
    /\ op = "make"
    /\ Len(moves) = 2
    /\ Origin.turn = White
    /\ board.fullmove_number = Origin.fullmove_number + 1

\* The last move carried a pawn exactly two ranks forward
LastMoveDoublePush ==
    /\ LastMove.from \in clone[BitSetOf(clone.turn, Pawn)]
    /\ Abs(rank(LastMove.to) - rank(LastMove.from)) = 2

\* C6: after make_move(m), en_passant_square is the square midway between
\* m.from and m.to if and only if m moved a pawn two ranks, and is None after
\* every other half-move, so a target is cleared by the next half-move unless
\* that one is a double pawn push itself.
EnPassantTargetLifetime ==
    op = "make" =>
        board.en_passant_square =
            IF LastMoveDoublePush
            THEN SquareNew(file(LastMove.from),
                           (rank(LastMove.from) + rank(LastMove.to)) \div 2)
            ELSE NoSquare

\* C6 witness: a double pawn push set a target, and the half-move that
\* followed, not a double push, cleared it
EnPassantTargetWitness ==
    /\ op = "make"
    /\ Len(moves) = 2
    /\ moves[1].flags = DoublePawnPush
    /\ clone.en_passant_square = (moves[1].from + moves[1].to) \div 2
    /\ ~LastMoveDoublePush
    /\ board.en_passant_square = NoSquare

\* The back rank of color c's pawns
BackRank(c) == IF c = White THEN 7 ELSE 0

\* By the rules, the pawn of the side to move on `from` can push to `to`
PawnCanPush(b, from, to) ==
    /\ file(to) = file(from)
    /\ rank(to) - rank(from) = (IF b.turn = White THEN 1 ELSE -1)
    /\ to \notin b.occupied

\* By the rules, the pawn of the side to move on `from` can capture onto `to`
PawnCanCapture(b, from, to) ==
    /\ Abs(file(to) - file(from)) = 1
    /\ rank(to) - rank(from) = (IF b.turn = White THEN 1 ELSE -1)
    /\ to \in b[OccupiedOf(opposite(b.turn))]

\* C7: whenever a pawn of the side to move can push to, or capture onto, its
\* back rank, the generator emits for that from/to pair exactly four moves,
\* promoting to Queen, Rook, Bishop and Knight, flagged Promotion for a push
\* and PromotionCapture for a capture, and no non-promoting move.
PromotionGeneration ==
    LET gen == generate_pawn_moves(board)
        For(from, to) == { i \in 1..Len(gen) : gen[i].from = from /\ gen[i].to = to }
    IN  \A from \in board[BitSetOf(board.turn, Pawn)] :
        \A to \in { s \in AllSquares : rank(s) = BackRank(board.turn) } :
            (PawnCanPush(board, from, to) \/ PawnCanCapture(board, from, to)) =>
                /\ Cardinality(For(from, to)) = 4
                /\ { gen[i].promotion : i \in For(from, to) } = {Queen, Rook, Bishop, Knight}
                /\ \A i \in For(from, to) :
                      gen[i].flags = IF PawnCanPush(board, from, to)
                                     THEN Promotion ELSE PromotionCapture

\* The two wings of color c: the right, the king's home and destination, the
\* squares between king and rook, and the squares the king stands on or crosses
Wings(c) ==
    IF c = White
    THEN { [right |-> W_KINGSIDE_RIGHTS, home |-> E1, to |-> G1,
            between |-> {F1, G1}, path |-> {E1, F1, G1}],
           [right |-> W_QUEENSIDE_RIGHTS, home |-> E1, to |-> C1,
            between |-> {B1, C1, D1}, path |-> {E1, D1, C1}] }
    ELSE { [right |-> B_KINGSIDE_RIGHTS, home |-> E8, to |-> G8,
            between |-> {F8, G8}, path |-> {E8, F8, G8}],
           [right |-> B_QUEENSIDE_RIGHTS, home |-> E8, to |-> C8,
            between |-> {B8, C8, D8}, path |-> {E8, D8, C8}] }

\* C8: a Castling move for a wing is generated if and only if the king of the
\* side to move is on its e-file home square, the wing's right is held, the
\* squares between king and rook are empty, and none of the king's start,
\* transit and end squares is attacked by the opponent.
CastlingGeneration ==
    LET gen == generate_king_moves(board)
    IN  \A w \in Wings(board.turn) :
            (\E i \in 1..Len(gen) :
                gen[i].flags = Castling /\ gen[i].from = w.home /\ gen[i].to = w.to)
            <=>
            /\ w.home \in board[BitSetOf(board.turn, King)]
            /\ w.right \in board.castling_rights
            /\ w.between \cap board.occupied = {}
            /\ \A s \in w.path : ~ChessAttacked(board, s, opposite(board.turn))

\* The king of the side to move is attacked by the opponent
KingAttacked(b) ==
    \E k \in b[BitSetOf(b.turn, King)] : ChessAttacked(b, k, opposite(b.turn))

\* C9: when the side to move has no legal move, game_result is
\* Checkmate(side to move) if its king is attacked and Stalemate otherwise,
\* never Ongoing or a draw.
TerminalVerdict ==
    legal = <<>> =>
        result = IF KingAttacked(board) THEN Checkmate(board.turn) ELSE Stalemate

\* C10: with at least one legal move, game_result is DrawFiftyMove if
\* halfmove_clock >= 100, else DrawInsufficientMaterial if
\* is_insufficient_material() holds, else Ongoing; and with no legal move a
\* position with a king is Checkmate or Stalemate whatever the clock.
DecisionOrder ==
    /\ legal # <<>> =>
          result = IF board.halfmove_clock >= 100 THEN DrawFiftyMove
                   ELSE IF is_insufficient_material(board) THEN DrawInsufficientMaterial
                   ELSE Ongoing
    /\ (legal = <<>> /\ board[BitSetOf(board.turn, King)] # {}) =>
          result.kind \in {"Checkmate", "Stalemate"}

\* C10 witness: a move is available, the clock is at 100 and the material is
\* insufficient as well: the verdict is the fifty-move draw
DecisionOrderWitness ==
    /\ legal # <<>>
    /\ board.halfmove_clock >= 100
    /\ is_insufficient_material(board)
    /\ result = DrawFiftyMove

\* ---------------------------------------------------- properties: material
\* The pieces of color c on b besides its king, as a count per kind
Holding(b, c) == [p \in Piece \ {King} |-> Cardinality(b[BitSetOf(c, p)])]

\* A king alone
Bare == [p \in Piece \ {King} |-> 0]
\* A king and one piece of kind p
KingAnd(p) == [Bare EXCEPT ![p] = 1]

\* One side of b holds h besides its king and the other only its king, each
\* side having one king
LoneKingAgainst(b, h) ==
    /\ \A c \in Color : Cardinality(b[BitSetOf(c, King)]) = 1
    /\ \E c \in Color : Holding(b, c) = h /\ Holding(b, opposite(c)) = Bare

\* C11: is_insufficient_material returns true for King vs King, King+Bishop vs
\* King and King+Knight vs King, whichever color holds the minor piece, and
\* false for King+Rook vs King.
InsufficientReferenceCases ==
    material # <<>> =>
        /\ LoneKingAgainst(parsed.board, Bare) => material[1]
        /\ LoneKingAgainst(parsed.board, KingAnd(Bishop)) => material[1]
        /\ LoneKingAgainst(parsed.board, KingAnd(Knight)) => material[1]
        /\ LoneKingAgainst(parsed.board, KingAnd(Rook)) => ~material[1]

\* The number of pieces of the kinds ps on b, both colors together
CountOf(b, ps) ==
    LET Of(c, p) == IF p \in ps THEN Holding(b, c)[p] ELSE 0
        Side(c) == Of(c, Pawn) + Of(c, Knight) + Of(c, Bishop) + Of(c, Rook) + Of(c, Queen)
    IN  Side(White) + Side(Black)

\* C12: is_insufficient_material returns true only if no pawn, rook or queen
\* of either color is on the board and the two sides together hold at most one
\* minor piece.
InsufficientOnlyBareMinor ==
    (material # <<>> /\ material[1]) =>
        /\ CountOf(parsed.board, {Pawn, Rook, Queen}) = 0
        /\ CountOf(parsed.board, {Knight, Bishop}) <= 1

\* ------------------------------------------------ properties: move counts
\* The moves of ms made by a piece of kind p over `by` squares
MovesBy(ms, p, by) ==
    { i \in 1..Len(ms) : ms[i].piece = p /\ Abs(ms[i].to - ms[i].from) \in by }

\* C13: in the standard initial position generate_legal_moves returns exactly
\* 20 distinct moves: 8 single pawn pushes, 8 double pawn pushes and 4 knight
\* moves.
InitialMoveCount ==
    SameFields(board, DefaultBoard) =>
        /\ Len(legal) = 20
        /\ Cardinality(SeqToSet(legal)) = 20
        /\ Cardinality(MovesBy(legal, Pawn, {8})) = 8
        /\ Cardinality(MovesBy(legal, Pawn, {16})) = 8
        /\ Cardinality(MovesBy(legal, Knight, {15, 17})) = 4

\* C13 witness: the initial position again, after a move was made and taken back
InitialMoveCountWitness ==
    /\ op = "unmake"
    /\ SameFields(board, DefaultBoard)
    /\ Len(legal) = 20

\* The node counts of the initial position at depths 1 to 6
PerftReference == <<20, 400, 8902, 197281, 4865609, 119060324>>

\* C14: perft(initial position, d) returns 20, 400, 8902, 197281, 4865609 and
\* 119060324 for d = 1..6, perft being 1 at depth 0 and otherwise the sum of
\* perft(position after m, d - 1) over every legal move m.  The counts are
\* computed as far as depth MaxPerftDepth.
PerftCounts ==
    (op = "start" /\ board = DefaultBoard) =>
        /\ perft(board, 0) = 1
        /\ \A d \in 1..MaxPerftDepth : perft(board, d) = PerftReference[d]

\* ----------------------------------------------------- properties: import
\* C15: Board::from_fen on the standard start FEN yields Board::default(): the
\* twelve piece bit-sets, the four occupancy sets, turn, castling_rights,
\* en_passant_square, halfmove_clock, fullmove_number and zobrist_hash are
\* equal and the undo stack is empty.
FenFidelity ==
    (fen = FenStart /\ parsed.kind # "None") =>
        /\ parsed.kind = "Ok"
        /\ SameFields(parsed.board, DefaultBoard)
        /\ parsed.board.zobrist_hash = DefaultBoard.zobrist_hash
        /\ parsed.board.history = <<>>

\* C15 witness: the start FEN was imported and a board came back
FenFidelityWitness ==
    /\ fen = FenStart
    /\ parsed.kind = "Ok"
    /\ parsed.board.white_pawns = DefaultBoard.white_pawns
    /\ parsed.board.black_king = {E8}

\* The rights a castling field names
NamedRights(chars) ==
    { r \in {W_KINGSIDE_RIGHTS, W_QUEENSIDE_RIGHTS, B_KINGSIDE_RIGHTS, B_QUEENSIDE_RIGHTS} :
        \E i \in 1..Len(chars) :
            chars[i] = (CASE r = W_KINGSIDE_RIGHTS -> "K"
                          [] r = W_QUEENSIDE_RIGHTS -> "Q"
                          [] r = B_KINGSIDE_RIGHTS -> "k"
                          [] r = B_QUEENSIDE_RIGHTS -> "q") }

\* C16: the castling_rights mask of a parsed position holds exactly the bits
\* the castling field names, and is 0 for the field "-".
FenCastlingField ==
    parsed.kind = "Ok" =>
        parsed.board.castling_rights = NamedRights(fen[3])

\* The number of files each rank of a piece-placement field describes
RECURSIVE RankWidths(_, _, _)
RankWidths(chars, i, width) ==
    IF i > Len(chars) THEN <<width>>
    ELSE IF chars[i] = "/" THEN <<width>> \o RankWidths(chars, i + 1, 0)
    ELSE RankWidths(chars, i + 1,
                    width + (IF is_digit(chars[i]) THEN to_digit(chars[i]) ELSE 1))

\* A square in algebraic notation: a file letter a..h and a rank digit 1..8
IsSquareName(chars) ==
    /\ Len(chars) = 2
    /\ chars[1] \in SeqToSet(FileChars)
    /\ chars[2] \in SeqToSet(SubSeq(DigitChars, 2, 9))

\* A run of decimal digits
IsNumber(chars) ==
    chars # <<>> /\ \A i \in 1..Len(chars) : is_digit(chars[i])

\* The text f is malformed in one of its fields
Malformed(f) ==
    IF Len(f) # 6 THEN TRUE
    ELSE \/ \E i \in 1..Len(f[1]) :
               ~(IsPieceChar(f[1][i]) \/ is_digit(f[1][i]) \/ f[1][i] = "/")
         \/ Len(RankWidths(f[1], 1, 0)) > 8
         \/ \E k \in 1..Len(RankWidths(f[1], 1, 0)) : RankWidths(f[1], 1, 0)[k] > 8
         \/ f[2] \notin {<<"w">>, <<"b">>}
         \/ \E i \in 1..Len(f[3]) : f[3][i] \notin {"K", "Q", "k", "q", "-"}
         \/ f[4] # <<"-">> /\ ~IsSquareName(f[4])
         \/ ~IsNumber(f[5])
         \/ ~IsNumber(f[6])

\* C17: from_fen returns an error, never a position and never an abort, for
\* every text that is malformed in a field: a field count other than six, an
\* invalid piece character, more than 8 ranks or more than 8 files in a rank,
\* an active color other than w/b, an invalid castling letter, a malformed
\* en-passant square, a non-numeric clock.
FenValidation ==
    (parsed.kind # "None" /\ Malformed(fen)) => parsed.kind = "Err"

\* ---------------------------------------------------- properties: attacks
\* C19: is_square_attacked(sq, c) is true if and only if some piece of color c
\* attacks sq under the rules of chess in the current occupancy: a pawn able
\* to capture onto sq, a knight a jump away, the king adjacent, a bishop or
\* queen on an open diagonal, a rook or queen on an open rank or file.
AttackDetection ==
    \A sq \in AllSquares : \A c \in Color :
        is_square_attacked(board, sq, c) <=> ChessAttacked(board, sq, c)

\* The square of color c's king (the lowest one, were there several)
KingSquare(b, c) == trailing_zeros(b[BitSetOf(c, King)])

\* C20 as stated: is_king_in_check(color) is false when `color` has no king
\* and otherwise tells whether color's own king square is attacked by the
\* opposite color.
KingInCheckOwnColor ==
    \A c \in Color :
        is_king_in_check(board, c) =
            IF board[BitSetOf(c, King)] = {} THEN FALSE
            ELSE is_square_attacked(board, KingSquare(board, c), opposite(c))

\* C20 amended: is_king_in_check(attacking_color) is false when the opposite
\* color has no king and otherwise tells whether the opposite color's king
\* square is attacked by attacking_color.
KingInCheckAttackingColor ==
    \A c \in Color :
        is_king_in_check(board, c) =
            IF board[BitSetOf(opposite(c), King)] = {} THEN FALSE
            ELSE is_square_attacked(board, KingSquare(board, opposite(c)), c)

\* C20 witness: a move was played that attacks the king of the side now to
\* move, whose own pieces do not attack the mover's king: the call with the
\* mover's color answers true
KingInCheckWitness ==
    /\ op = "make"
    /\ board[BitSetOf(White, King)] # {} /\ board[BitSetOf(Black, King)] # {}
    /\ is_king_in_check(board, clone.turn)
    /\ is_square_attacked(board, KingSquare(board, board.turn), clone.turn)
    /\ ~is_square_attacked(board, KingSquare(board, clone.turn), board.turn)

\* ------------------------------------------------------ properties: magic
\* C18: whenever try_make_table accepts an entry for a rook or bishop on a
\* square, the table entry at (b * magic mod 2^64) >> shift is, for every
\* subset b of the relevant-blocker mask, the attack set ray-cast from the
\* square toward the first blocker of b in each direction; an entry under
\* which two subsets with different attack sets share an index is never
\* accepted.
MagicCorrectness ==
    made = "Ok" =>
        LET hashed == { <<magic_index(entry, b),
                          sliding_moves(entry.piece, entry.square, b)>> :
                        b \in SUBSET entry.mask }
        IN  /\ \A h \in hashed : table[h[1]] = h[2]
            /\ Cardinality({ h[1] : h \in hashed }) = Cardinality(hashed)

\* C18 witness: a table for the rook on d4 was accepted; behind a blocker on
\* d5 the looked-up attack set stops at d5
MagicCorrectnessWitness ==
    /\ made = "Ok"
    /\ entry.piece = Rook
    /\ 35 \in table[magic_index(entry, {35, 43})]
    /\ 43 \notin table[magic_index(entry, {35, 43})]

\* C14 witness: perft was computed for the initial position: 400 nodes at depth 2
PerftCountsWitness ==
    /\ op = "start"
    /\ board = DefaultBoard
    /\ perft(board, 2) = 400

\* ------------------------------------------------- properties: make / unmake
\* C21: unmake_move called with an empty undo stack aborts, and it does so
\* before any bit-set or scalar field of the position is modified: the step
\* taken from an empty stack is never a completed unmake, and the abort leaves
\* the board as it was.
UnmakeEmptyStackAborts ==
    [][ board.history = <<>> =>
            /\ op' # "unmake"
            /\ op' = "abort" => board' = board ]_vars

\* C21 witness: unmake_move was called before any move was made and aborted
UnmakeEmptyStackWitness ==
    /\ op = "abort"
    /\ moves = <<>>
    /\ board.history = <<>>
    /\ legal # <<>>
\* The rights of color c
RightsOf(c) ==
    IF c = White THEN {W_KINGSIDE_RIGHTS, W_QUEENSIDE_RIGHTS}
    ELSE {B_KINGSIDE_RIGHTS, B_QUEENSIDE_RIGHTS}

\* C22: after make_move of a generated Castling move the king stands on the
\* g-file (king-side) or c-file (queen-side) of its home rank, a rook of the
\* mover's color stands on the f-file or d-file respectively, the king's home
\* square and the rook's corner square are empty, both castling rights of the
\* mover are cleared and the opponent's castling rights are unchanged.
CastlingMake ==
    (op = "make" /\ LastMove.flags = Castling) =>
        LET c == clone.turn
            home_rank == IF c = White THEN 0 ELSE 7
            kingside == file(LastMove.to) = 6
            king_to == SquareNew(IF kingside THEN 6 ELSE 2, home_rank)
            rook_to == SquareNew(IF kingside THEN 5 ELSE 3, home_rank)
            corner == SquareNew(IF kingside THEN 7 ELSE 0, home_rank)
            home == SquareNew(4, home_rank)
        IN  /\ file(LastMove.to) \in {2, 6}
            /\ board[BitSetOf(c, King)] = {king_to}
            /\ rook_to \in board[BitSetOf(c, Rook)]
            /\ piece_on_square(board, home) = NoOccupant
            /\ piece_on_square(board, corner) = NoOccupant
            /\ {home, corner} \subseteq board.empty
            /\ board.castling_rights \cap RightsOf(c) = {}
            /\ board.castling_rights \cap RightsOf(opposite(c))
                 = clone.castling_rights \cap RightsOf(opposite(c))

\* C22 witness: Black castled queen-side after White castled king-side, Black
\* holding both rights until then
CastlingMakeWitness ==
    /\ op = "make"
    /\ Len(moves) = 2
    /\ moves[1].flags = Castling /\ moves[1].to = G1
    /\ LastMove.flags = Castling /\ LastMove.to = C8
    /\ clone.castling_rights = {B_KINGSIDE_RIGHTS, B_QUEENSIDE_RIGHTS}
    /\ board.castling_rights = {}
\* The right tied to color c's rook corner sq, if sq is one
CornerRight(c, sq) ==
    IF c = White
    THEN IF sq = A1 THEN {W_QUEENSIDE_RIGHTS} ELSE IF sq = H1 THEN {W_KINGSIDE_RIGHTS} ELSE {}
    ELSE IF sq = A8 THEN {B_QUEENSIDE_RIGHTS} ELSE IF sq = H8 THEN {B_KINGSIDE_RIGHTS} ELSE {}

\* C23: make_move of any king move clears both castling rights of the moving
\* color; make_move of a rook move from that color's own a-file or h-file home
\* corner clears exactly the matching single right of that color; no other
\* right is cleared by a king or rook move, and a rook move never clears a
\* right of the opposite color.
RightsRevocation ==
    (op = "make" /\ LastMove.piece \in {King, Rook}) =>
        LET c == clone.turn
            lost == clone.castling_rights \ board.castling_rights
        IN  IF LastMove.piece = King
            THEN /\ board.castling_rights \cap RightsOf(c) = {}
                 /\ lost \subseteq RightsOf(c)
            ELSE /\ board.castling_rights \cap CornerRight(c, LastMove.from) = {}
                 /\ lost \subseteq CornerRight(c, LastMove.from)
\* The square directly behind `to`, seen from the mover c
Behind(c, to) == to + (IF c = White THEN -8 ELSE 8)

\* C24: after make_move of a generated EnPassant move the mover's pawn stands
\* on the en-passant target square, the opponent pawn on the square directly
\* behind it (to - 8 for a White mover, to + 8 for a Black mover) has been
\* removed from the opponent's pawn set and from occupancy, and no other
\* square changes occupant (the origin square is left empty).
EnPassantMake ==
    (op = "make" /\ LastMove.flags = EnPassant) =>
        LET c == clone.turn
            opp == opposite(c)
            to == LastMove.to
            behind == Behind(c, to)
        IN  /\ to = clone.en_passant_square
            /\ piece_on_square(board, to) = [piece |-> Pawn, color |-> c]
            /\ behind \in clone[BitSetOf(opp, Pawn)]
            /\ behind \notin board[BitSetOf(opp, Pawn)]
            /\ behind \notin board[OccupiedOf(opp)] \cup board.occupied
            /\ behind \in board.empty
            /\ piece_on_square(board, LastMove.from) = NoOccupant
            /\ \A s \in AllSquares \ {LastMove.from, to, behind} :
                  piece_on_square(board, s) = piece_on_square(clone, s)

\* C25: after make_move followed by unmake_move of an EnPassant move the
\* captured opponent pawn is back on the square where it stood before the
\* capture (directly behind the destination), the en-passant target square
\* (the move's destination) is empty, and the capturing pawn is back on its
\* origin square.
EnPassantUnmake ==
    [][ (op' = "unmake" /\ moves # <<>> /\ LastMove.flags = EnPassant) =>
            LET c == saved[Len(saved)].turn
                behind == Behind(c, LastMove.to)
            IN  /\ piece_on_square(board', behind) = [piece |-> Pawn, color |-> opposite(c)]
                /\ piece_on_square(board', LastMove.to) = NoOccupant
                /\ piece_on_square(board', LastMove.from) = [piece |-> Pawn, color |-> c]
      ]_vars
\* C26: for any move whose destination holds an opponent piece before the
\* call, whatever the move's flag and captured_piece field, make_move removes
\* that opponent piece from its bit-set and the Undo snapshot records that
\* piece, so that the matching unmake_move puts it back on the destination.
CaptureByOccupancy ==
    [][ /\ op' = "make" =>
              LET mv == moves'[Len(moves')]
                  opp == opposite(board.turn)
                  taken == piece_on_square(board, mv.to)
              IN  mv.to \in board[OccupiedOf(opp)] =>
                    /\ mv.to \notin board'[BitSetOf(opp, taken.piece)]
                    /\ board'.history[Len(board'.history)].captured
                         = [sq |-> mv.to, piece |-> taken.piece, color |-> opp]
        /\ op' = "unmake" =>
              LET before == saved[Len(saved)]
              IN  LastMove.to \in before[OccupiedOf(opposite(before.turn))] =>
                    piece_on_square(board', LastMove.to)
                      = piece_on_square(before, LastMove.to)
      ]_vars
\* ------------------------------------------------- properties: generation
\* A pawn of color c on f attacks t: one file aside, one rank forward
PawnAttacksSquare(c, f, t) ==
    /\ Abs(file(t) - file(f)) = 1
    /\ rank(t) = rank(f) + (IF c = White THEN 1 ELSE -1)

\* C27: an EnPassant move from f to the en-passant target t is generated
\* (pseudo-legally) if and only if en_passant_square = Some(t) and a pawn of
\* the side to move stands on a square f from which a pawn of that color
\* attacks t diagonally; each such move has captured_piece = Pawn and
\* destination t, and none is generated when en_passant_square is None.
EnPassantGeneration ==
    op # "abort" =>
    LET gen == generate_pawn_moves(board)
        at == { i \in 1..Len(gen) : gen[i].flags = EnPassant }
        t == board.en_passant_square
    IN  /\ \A f \in AllSquares :
              (\E i \in at : gen[i].from = f)
              <=> /\ t # NoSquare
                  /\ f \in board[BitSetOf(board.turn, Pawn)]
                  /\ PawnAttacksSquare(board.turn, f, t)
        /\ \A i \in at :
              /\ gen[i].to = t
              /\ gen[i].piece = Pawn
              /\ gen[i].captured_piece = Pawn
              /\ gen[i].promotion = NoPiece
        /\ \A i, j \in at : gen[i].from = gen[j].from => i = j
        /\ t = NoSquare => at = {}

\* C27 witness: after a White double push the generator gives Black the
\* en-passant capture of the pawn that made it
EnPassantGenerationWitness ==
    /\ op = "make"
    /\ LastMove.flags = DoublePawnPush
    /\ board.turn = Black
    /\ board.en_passant_square = Behind(White, LastMove.to)
    /\ \E i \in 1..Len(legal) :
          legal[i].flags = EnPassant /\ legal[i].to = board.en_passant_square
\* A slider p on `from` reaches `to`: they share one of p's lines and every
\* square strictly between them is free in occ
SlideReach(p, from, to, occ) ==
    LET fd == Abs(file(from) - file(to))
        rd == Abs(rank(from) - rank(to))
    IN  /\ from # to
        /\ \/ p \in {Rook, Queen} /\ (fd = 0 \/ rd = 0)
           \/ p \in {Bishop, Queen} /\ fd = rd
        /\ Between(from, to) \cap occ = {}

\* What the generator of slider p returned for b
SliderGenerated(b, p) ==
    IF p = Rook THEN generate_rook_moves(b)
    ELSE IF p = Bishop THEN generate_bishop_moves(b)
    ELSE generate_queen_moves(b)

\* C28: for every rook, bishop and queen of the side to move the generated
\* destinations are exactly the squares reachable along that piece's rays up
\* to and including the first occupied square, minus the squares occupied by
\* the mover's own color; a move is flagged Capture with captured_piece = the
\* occupant's type exactly when the destination holds an opponent piece, and
\* Normal with captured_piece = None otherwise.  (Every board a make_move or
\* unmake_move call returned; an aborted call returns none.)
SliderGeneration ==
    op # "abort" => \A p \in {Rook, Bishop, Queen} :
        LET gen == SliderGenerated(board, p)
            own == board[OccupiedOf(board.turn)]
        IN  /\ \A from \in AllSquares :
                  { gen[i].to : i \in { k \in 1..Len(gen) : gen[k].from = from } }
                  = IF from \in board[BitSetOf(board.turn, p)]
                    THEN { to \in AllSquares \ own : SlideReach(p, from, to, board.occupied) }
                    ELSE {}
            /\ \A i \in 1..Len(gen) :
                  LET there == piece_on_square(board, gen[i].to)
                  IN  /\ gen[i].piece = p
                      /\ gen[i].promotion = NoPiece
                      /\ IF gen[i].to \in board[OccupiedOf(opposite(board.turn))]
                         THEN gen[i].flags = Capture /\ gen[i].captured_piece = there.piece
                                /\ there.piece # NoPiece
                         ELSE gen[i].flags = Normal /\ gen[i].captured_piece = NoPiece
            /\ \A i, j \in 1..Len(gen) :
                  (gen[i].from = gen[j].from /\ gen[i].to = gen[j].to) => i = j

\* C28 witness: the side to move has a rook shut in by its own pieces, a
\* bishop with a capture and a queen with a quiet move
SliderGenerationWitness ==
    /\ board[BitSetOf(board.turn, Rook)] # {}
    /\ generate_rook_moves(board) = <<>>
    /\ \E i \in 1..Len(legal) : legal[i].piece = Bishop /\ legal[i].flags = Capture
    /\ \E i \in 1..Len(legal) : legal[i].piece = Queen /\ legal[i].flags = Normal
\* The scalar fields of a position
Scalars(b) ==
    <<b.castling_rights, b.en_passant_square, b.halfmove_clock, b.fullmove_number, b.turn>>

\* C29: for any move, legal or not, that does not capture a King (unmake_move
\* aborts on a snapshot holding one), make_move followed by unmake_move restores
\* castling_rights, en_passant_square, halfmove_clock, fullmove_number and
\* turn to their pre-make values and returns the undo stack to its pre-make
\* depth; after k nested make_move calls the stack has grown by k, and k
\* unmake_move calls in reverse order restore these fields.  (clone is the
\* board as it was before the make_move that the last call made or unmade.)
ScalarRestoration ==
    /\ op \in {"make", "unmake"} =>
          /\ Len(board.history) = Len(moves)
          /\ \A k \in 1..Len(saved) : Len(saved[k].history) = k - 1
    /\ op = "make" => Len(board.history) = Len(clone.history) + 1
    /\ op = "unmake" =>
          /\ Scalars(board) = Scalars(clone)
          /\ board.history = clone.history

\* C29 witness: a double push was made, then a second move that cleared the
\* en-passant target and, being Black's, advanced the move number; taking the
\* second move back brought target, clocks, rights and turn back
ScalarRestorationWitness ==
    /\ op = "unmake"
    /\ Len(moves) = 1
    /\ LastMove.flags = DoublePawnPush
    /\ board.en_passant_square # NoSquare
    /\ board.turn = Black
    /\ Scalars(board) = Scalars(clone)

\* C29 as stated, for every move without exception: whenever unmake_move is
\* called after a make_move it returns, with the scalar fields and the stack
\* depth the position had before that make_move.
ScalarRestorationAnyMove ==
    [][ (moves # <<>> /\ op' \in {"unmake", "abort"}) =>
            /\ op' = "unmake"
            /\ Scalars(board') = Scalars(saved[Len(saved)])
            /\ Len(board'.history) = Len(saved[Len(saved)].history)
      ]_vars

\* The place of a subset of the mask when the subsets are counted in binary,
\* the lowest square of the mask being the lowest digit
RECURSIVE SubsetNumber(_, _)
SubsetNumber(x, mask) ==
    IF mask = {} THEN 0
    ELSE (IF trailing_zeros(mask) \in x THEN 1 ELSE 0)
         + 2 * SubsetNumber(x, ClearLowest(mask))

\* C30: the loop blockers = (blockers - mask) & mask of try_make_table starts
\* at the empty set, stays within the subsets of the mask and goes from each
\* subset to the next in binary counting order, so that no subset is visited
\* twice and none is skipped; it comes back to the empty set exactly after
\* the full mask, the 2^popcount(mask)-th subset, and there the loop ends:
\* try_make_table always returns, Ok or Err.
SubsetEnumeration ==
    /\ [][ made = "filling" /\ made' # "Err" =>
              /\ blockers \subseteq entry.mask
              /\ blockers' \subseteq entry.mask
              /\ blockers' # {} =>
                    /\ SubsetNumber(blockers', entry.mask)
                          = SubsetNumber(blockers, entry.mask) + 1
                    /\ made' = "filling"
              /\ blockers' = {} =>
                    /\ SubsetNumber(blockers, entry.mask)
                          = 2 ^ Cardinality(entry.mask) - 1
                    /\ made' = "Ok"
         ]_vars
    /\ (made = "filling" /\ blockers = {}) ~> (made \in {"Ok", "Err"})

\* C30 witness: the loop over the 1024 subsets of the rook mask of d4 went
\* all the way round and ended at the empty set
SubsetEnumerationWitness ==
    /\ made = "Ok"
    /\ blockers = {}
    /\ entry.piece = Rook
    /\ Cardinality(entry.mask) = 10
    /\ Cardinality({ i \in DOMAIN table : table[i] # {} }) > 1

\* t lies on one of the piece's rays from s: same file or rank for a rook,
\* same diagonal for a bishop
OnRay(piece, s, t) ==
    /\ t # s
    /\ IF piece = Rook THEN file(t) = file(s) \/ rank(t) = rank(s)
       ELSE Abs(file(t) - file(s)) = Abs(rank(t) - rank(s))

\* t is the last square of its ray from s: one more step leaves the board
LastOfRay(piece, s, t) ==
    IF piece = Rook
    THEN IF file(t) = file(s) THEN rank(t) \in {0, 7} ELSE file(t) \in {0, 7}
    ELSE file(t) \in {0, 7} \/ rank(t) \in {0, 7}

\* C31: relevant_blockers(p, s) is exactly the set of squares on p's rays
\* from s that are neither s nor the last square of a ray, and
\* sliding_moves(s, occ) is the same for any two occupancies that agree on
\* this mask.
RelevantBlockerMask ==
    made = "cast" =>
        /\ entry.mask = { t \in AllSquares : /\ OnRay(entry.piece, entry.square, t)
                                              /\ ~LastOfRay(entry.piece, entry.square, t) }
        /\ \A occ \in RayOccupancies(entry.square) :
              occ \cap entry.mask = blockers \cap entry.mask
                 => sliding_moves(entry.piece, entry.square, occ) = table[1]

\* The sixteen bit-sets of a board: twelve of pieces, two of colors, occupied
\* and empty
SixteenSets(b) ==
    << b.white_pawns, b.white_knights, b.white_bishops, b.white_rooks,
       b.white_queens, b.white_king, b.black_pawns, b.black_knights,
       b.black_bishops, b.black_rooks, b.black_queens, b.black_king,
       b.white_occupied, b.black_occupied, b.occupied, b.empty >>

\* The k-th call was add_piece on an empty square of a consistent position
AddedOnEmpty(k) ==
    /\ moves[k].piece # NoPiece
    /\ Consistent(saved[k])
    /\ moves[k].square \in saved[k].empty

\* C32: on a consistent position add_piece(s, p, c) on an empty square s
\* makes piece_on_square(s) = (p, c); a delete_piece(s) that follows restores
\* all sixteen bit-sets to their values before the add; and delete_piece on an
\* empty square changes nothing.
PlacementInverse ==
    /\ (op = "add" /\ AddedOnEmpty(Len(moves))) =>
          piece_on_square(board, LastMove.square)
              = [piece |-> LastMove.piece, color |-> LastMove.color]
    /\ (/\ op = "delete"
        /\ Len(moves) >= 2
        /\ AddedOnEmpty(Len(moves) - 1)
        /\ moves[Len(moves) - 1].square = LastMove.square) =>
          SixteenSets(board) = SixteenSets(saved[Len(saved) - 1])
    /\ (/\ op = "delete"
        /\ Consistent(clone)
        /\ LastMove.square \in clone.empty) =>
          board = clone

\* C32 witness: a black knight was added on the empty d4 of the initial
\* position and deleted again, and the sixteen bit-sets are those of
\* Board::default()
PlacementInverseWitness ==
    /\ op = "delete"
    /\ Len(moves) = 2
    /\ saved[1] = DefaultBoard
    /\ moves[1] = [square |-> 27, piece |-> Knight, color |-> Black]
    /\ 27 \in saved[2].black_knights
    /\ LastMove.square = 27
    /\ SixteenSets(board) = SixteenSets(DefaultBoard)

\* The positions of the current line of play: before each make_move still on
\* the stack, and now
Line == Append(saved, board)

\* C33: the castling_rights after make_move are a subset of those before it,
\* for every move, generated or built by hand; along a sequence of make_move
\* calls a right once lost is never regained.
RightsNeverGrow ==
    op = "make" =>
        \A j, k \in 1..Len(Line) :
            j <= k => Line[k].castling_rights \subseteq Line[j].castling_rights

\* C33 witness: the first of two moves made lost a right, and the second made
\* no difference to the rights
RightsNeverGrowWitness ==
    /\ op = "make"
    /\ Len(moves) = 2
    /\ saved[2].castling_rights # saved[1].castling_rights
    /\ saved[2].castling_rights \subseteq saved[1].castling_rights
    /\ board.castling_rights = saved[2].castling_rights
    /\ board.castling_rights # {}

\* The king's home square and the rook's corner of a castling right
HomeOf(right) ==
    CASE right = W_KINGSIDE_RIGHTS -> [color |-> White, king |-> E1, rook |-> H1]
      [] right = W_QUEENSIDE_RIGHTS -> [color |-> White, king |-> E1, rook |-> A1]
      [] right = B_KINGSIDE_RIGHTS -> [color |-> Black, king |-> E8, rook |-> H8]
      [] right = B_QUEENSIDE_RIGHTS -> [color |-> Black, king |-> E8, rook |-> A8]

\* Every castling right b holds has its king and its rook at home
HomePlacement(b) ==
    \A right \in b.castling_rights :
        /\ HomeOf(right).king \in b[BitSetOf(HomeOf(right).color, King)]
        /\ HomeOf(right).rook \in b[BitSetOf(HomeOf(right).color, Rook)]

\* C34: from a position in which every held castling right has its king on
\* the home square and its rook on the corner, every position reached by
\* make_move of generated legal moves is such a position too; a rook taken on
\* its corner leaves no right for that corner.
RightsImplyHomePlacement ==
    (op = "make" /\ HomePlacement(Origin)) => HomePlacement(board)

\* The number of pieces of color c on b, counted over the six bit-sets
PieceCount(b, c) ==
    SumSeq([i \in 1..6 |-> Cardinality(b[BitSetOf(c, PieceOrder[i])])])

\* C35: make_move of a generated legal move leaves the number of pieces of
\* the moving color unchanged and takes exactly one piece from the opponent
\* if the move is a capture or an en-passant capture and none otherwise; no
\* move, castling included, creates a piece.
MaterialConservation ==
    op = "make" =>
        /\ PieceCount(board, clone.turn) = PieceCount(clone, clone.turn)
        /\ PieceCount(board, opposite(clone.turn)) =
              PieceCount(clone, opposite(clone.turn))
                - (IF LastMove.captured_piece # NoPiece \/ LastMove.flags = EnPassant
                   THEN 1 ELSE 0)

\* No pawn of either color stands on rank 1 or rank 8 of b
NoBackRankPawn(b) ==
    \A sq \in b.white_pawns \cup b.black_pawns : rank(sq) \notin {0, 7}

\* C36: from a position with no pawn on rank 1 or rank 8, every position
\* reached by make_move of generated legal moves has no pawn of either color
\* on rank 1 or rank 8.
NoPawnOnBackRank ==
    (op = "make" /\ NoBackRankPawn(Origin)) => NoBackRankPawn(board)

\* C37: in every position produced by make_move of a generated legal move, if
\* en_passant_square is Some(t) then t is empty and a pawn of the side that
\* has just moved stands on the square directly beyond t: t + 8 when White
\* has just moved, t - 8 when Black has.
EnPassantTargetOnBoard ==
    (op = "make" /\ board.en_passant_square # NoSquare) =>
        LET t == board.en_passant_square
            c == clone.turn
            beyond == IF c = White THEN t + 8 ELSE t - 8
        IN  /\ t \in board.empty
            /\ piece_on_square(board, t) = NoOccupant
            /\ beyond \in AllSquares
            /\ piece_on_square(board, beyond) = [piece |-> Pawn, color |-> c]

\* C37 witness: Black answered a move of White's with a double push, and the
\* target lies on the sixth rank behind the pawn
EnPassantTargetOnBoardWitness ==
    /\ op = "make"
    /\ Len(moves) = 2
    /\ clone.turn = Black
    /\ LastMove.flags = DoublePawnPush
    /\ rank(board.en_passant_square) = 5
    /\ board.en_passant_square - 8 \in board.black_pawns

\* How often x occurs in the sequence
Occurrences(seq, x) == Cardinality({ i \in DOMAIN seq : seq[i] = x })

\* The two sequences hold the same moves the same number of times
SameMoves(s1, s2) ==
    /\ Len(s1) = Len(s2)
    /\ \A x \in SeqToSet(s1) \cup SeqToSet(s2) : Occurrences(s1, x) = Occurrences(s2, x)

\* What the buffer handed to generate_legal_moves_into may hold on entry:
\* nothing, the legal moves of the position, or a move that never was
BufferInputs == { <<>>, legal, <<Mv(A1, A8, Rook, NoPiece, NoPiece, Normal)>> }

\* C38: for every position, generate_legal_moves and
\* generate_legal_moves_into, whatever its buffer held on entry, produce the
\* same moves with the same multiplicities, in whatever order.  (legal is
\* what generate_legal_moves returned for the board.)
EntryPointsAgree ==
    op # "abort" =>
        \A buffer \in BufferInputs :
            SameMoves(legal, generate_legal_moves_into_buffer(board, buffer))

\* C38 witness: a position in which the two entry points return the same
\* moves in different orders (the bishops' and the queen's are swapped), the
\* buffer having held the moves of the position before
EntryPointsAgreeWitness ==
    /\ op = "make"
    /\ legal # <<>>
    /\ generate_legal_moves_into_buffer(board, legal) # legal
    /\ SameMoves(legal, generate_legal_moves_into_buffer(board, legal))
    /\ \E i, j \in DOMAIN legal : legal[i].piece = Bishop /\ legal[j].piece = Queen

\* What makes two positions the same for repetition: placement, side to
\* move, castling rights and en-passant target
PositionKey(b) ==
    << b.white_pawns, b.white_knights, b.white_bishops, b.white_rooks,
       b.white_queens, b.white_king, b.black_pawns, b.black_knights,
       b.black_bishops, b.black_rooks, b.black_queens, b.black_king,
       b.turn, b.castling_rights, b.en_passant_square >>

\* How often the present position has occurred in the line played
TimesOccurred ==
    Cardinality({ k \in 1..Len(saved) : PositionKey(saved[k]) = PositionKey(board) }) + 1

\* C39: game_result never returns DrawRepetition, however often the position
\* has occurred in the moves played so far: the verdict is Checkmate,
\* Stalemate, DrawFiftyMove, DrawInsufficientMaterial or Ongoing.
NeverDrawRepetition ==
    /\ result # DrawRepetition
    /\ result \in { Checkmate(White), Checkmate(Black), Stalemate,
                     DrawFiftyMove, DrawInsufficientMaterial, Ongoing }

\* C39 witness: the position has occurred three times in the line played and
\* the verdict is Ongoing
NeverDrawRepetitionWitness ==
    /\ op = "make"
    /\ TimesOccurred >= 3
    /\ result = Ongoing
====
